---- MODULE Spec2Model ----
(***************************************************************************)
(* Verification model of mt-kahypar.                                       *)
(*                                                                         *)
(* Part 1: StaticHypergraph::contract / contract_v2, the parallel          *)
(* contraction operator.  One action per iteration of every parallel loop  *)
(* of contract_v2, so that every order in which the loop bodies can run is *)
(* a behaviour of SpecContract.                                            *)
(*                                                                         *)
(* Part 2: the quotient graph block schedulers (SchedulerBase,             *)
(* MatchingScheduler, OptScheduler): one round of block pair scheduling,   *)
(* node ownership, block weight arbitration and buildQuotientGraph.        *)
(***************************************************************************)
EXTENDS Integers, Sequences, FiniteSets, TLC

(***************************************************************************)
(* Bounds of the model.                                                    *)
(***************************************************************************)
\* number of fine vertices / fine hyperedges of the enumerated hypergraphs
NumNodes == 3
NumEdges == 2
\* context.partition.k of the scheduling rounds
NumBlocks == 4
\* TBBNumaArena::instance().total_number_of_threads()
NumThreads == 2
\* vertices the tasks of the OptScheduler compete for
NumLockNodes == 2
\* the largest amount of block weight a task aquires
MaxAmount == 2
\* calls of changeNodePart after buildQuotientGraph
MaxMoves == 2

\* searches of one call of performLocalSearches, gains a search returns,
\* and times one search returns a gain when resumed
MaxSearches == 3
MaxGain == 1
MaxResumes == 1

\* moves of one FM search on a hypergraph
MaxFmMoves == 2
\* length of a sequence of tracked gains, and the range of its gains
MaxTrackedMoves == 5
MaxLoss == 5
MaxMoveGain == 3
\* the largest max_part_weight
MaxPartWeight == 2
\* vertices and hyperedges of the hypergraphs of the flow refinement
NumFlowNodes == 4
NumFlowEdges == 3
\* vertices and edges of the graphs StaticGraphFactory::construct is called with
NumGraphNodes == 3
NumGraphEdges == 3
\* threads that write to a parallel::queue, and calls of write
NumWriters == 2
MaxWrites == 3
\* vertices, hyperedges and blocks of the hypergraphs of the n-level round
\* trip, its contractions and batches, and the threads that uncontract
NumNlNodes == 3
NumNlEdges == 2
NumNlBlocks == 2
MaxContractions == 2
MaxBatches == 2
NumNlThreads == 2
\* vertices, hyperedges and blocks of the hypergraphs of the ILPHypergraph,
\* and the largest vertex weight
NumIlpNodes == 3
NumIlpEdges == 2
NumIlpBlocks == 3
MaxIlpWeight == 2

(***************************************************************************)
(* Program constants.  TLC computes with 32 bit integers: the two          *)
(* numeric_limits<>::max() values are represented by the largest value TLC *)
(* can hold, which is above every id and every hash the bounds allow.      *)
(***************************************************************************)
kInvalidHypernode == 2147483647
\* the gain of a reverted move; below every gain of a move
invalidGain == -2147483647
SizeTMax == 2147483647
kInvalidHyperedge == 2147483647
invalidGroupID == 2147483647
kEdgeHashSeed == 42

(***************************************************************************)
(* Generic helpers.                                                        *)
(***************************************************************************)
Range(s) == {s[i] : i \in DOMAIN s}

Max2(a, b) == IF a >= b THEN a ELSE b

RECURSIVE SumOver(_, _)
\* sum of f[x] for x in S
SumOver(f, S) ==
  IF S = {} THEN 0
  ELSE LET x == CHOOSE y \in S : TRUE IN f[x] + SumOver(f, S \ {x})

RECURSIVE SetToSortedSeq(_)
SetToSortedSeq(S) ==
  IF S = {} THEN <<>>
  ELSE LET x == CHOOSE y \in S : \A z \in S : y <= z
       IN <<x>> \o SetToSortedSeq(S \ {x})

IsSortedSeq(s) == \A i \in 1..(Len(s) - 1) : s[i] < s[i + 1]

NoDuplicates(s) == \A i, j \in DOMAIN s : i # j => s[i] # s[j]

\* std::sort of the window [lo, hi) of array a (entries are distinct or not)
RECURSIVE SortedSeqOf(_)
SortedSeqOf(s) ==
  IF s = <<>> THEN <<>>
  ELSE LET i == CHOOSE k \in DOMAIN s : \A l \in DOMAIN s : s[k] <= s[l]
           rest == [k \in 1..(Len(s) - 1) |-> IF k < i THEN s[k] ELSE s[k + 1]]
       IN <<s[i]>> \o SortedSeqOf(rest)

(***************************************************************************)
(* The inputs of contract: a fine static hypergraph and a cluster vector.  *)
(***************************************************************************)
Pow2(k) == 2 ^ k

\* pin lists of the enumerated hypergraphs: the non-empty vertex sets, ascending
PinLists(n) == {SetToSortedSeq(S) : S \in (SUBSET (0..(n - 1))) \ {{}}}

\* _total_weight of the fine hypergraph is a stored aggregate: the weight of
\* all vertices, or of the enabled ones when it was recomputed after removals
TotalWeights(n, nw, en) ==
  {SumOver(nw, 0..(n - 1)), SumOver(nw, {v \in 0..(n - 1) : en[v]})}

Hypergraph(n, m, pins, ew, nw, en, comm, tw) ==
  [n |-> n, m |-> m, pins |-> pins, ew |-> ew, nw |-> nw,
   enabled |-> en, community |-> comm, total_weight |-> tw]

\* every hypergraph on n vertices and m hyperedges
EnumeratedHypergraphs(n, m) ==
  LET nw == [v \in 0..(n - 1) |-> Pow2(v)]
      ew == [e \in 0..(m - 1) |-> Pow2(e)]
      comm == [v \in 0..(n - 1) |-> v % 2]
  IN UNION {
       {Hypergraph(n, m, pins, ew, nw, en, comm, tw) :
          tw \in TotalWeights(n, nw, en)} :
       pins \in [0..(m - 1) -> PinLists(n)],
       en \in [0..(n - 1) -> BOOLEAN]}

AllEnabled(n) == [v \in 0..(n - 1) |-> TRUE]

\* three identical nets {0,1,2} of weights 1, 2, 3
IdenticalNetsHypergraph ==
  Hypergraph(3, 3, [e \in 0..2 |-> <<0, 1, 2>>], [e \in 0..2 |-> e + 1],
             [v \in 0..2 |-> 1], AllEnabled(3), [v \in 0..2 |-> 0], 3)

\* nets with equal fingerprint and size but different pins: 0+25 = 9+16,
\* and a net of another size with the same fingerprint: 0+9+16
CollidingNetsHypergraph ==
  Hypergraph(6, 4,
             (0 :> <<0, 5>>) @@ (1 :> <<3, 4>>) @@ (2 :> <<5, 0>>) @@ (3 :> <<0, 3, 4>>),
             [e \in 0..3 |-> Pow2(e)], [v \in 0..5 |-> 1], AllEnabled(6),
             [v \in 0..5 |-> 0], 6)

\* eight vertices contracted pairwise
PairsHypergraph ==
  Hypergraph(8, 3,
             (0 :> <<0, 1>>) @@ (1 :> <<1, 2, 7>>) @@ (2 :> <<6, 3, 0>>),
             [e \in 0..2 |-> Pow2(e)], [v \in 0..7 |-> 1], AllEnabled(8),
             [v \in 0..7 |-> 0], 8)

Identity(n) == [v \in 0..(n - 1) |-> v]

\* the (hypergraph, cluster vector) pairs contract is called with
ContractInputs(n, m) ==
  {<<h, c>> : h \in EnumeratedHypergraphs(n, m), c \in [0..(n - 1) -> 0..(n - 1)]}
  \cup {<<IdenticalNetsHypergraph, Identity(3)>>}
  \cup {<<CollidingNetsHypergraph, Identity(6)>>}
  \cup {<<PairsHypergraph, [v \in 0..7 |-> v \div 2]>>}

(***************************************************************************)
(* State of one call of contract_v2.                                       *)
(***************************************************************************)
VARIABLES
  hg,                  \* *this: the fine hypergraph
  communities,         \* the cluster vector as passed to contract()
  clusters,            \* the cluster vector, rewritten in place
  pc,                  \* the phase contract_v2 is in
  todo,                \* iterations of the running parallel loop not yet run
  mapping,
  num_coarse_nodes,
  coarse_pin_lists,
  permutation,
  coarse_edge_weights,
  num_coarse_nets,
  num_coarse_pins,
  offsets_for_fine_nets,
  chg,                 \* the coarse hypergraph under construction
  cursor               \* write incident nets: next pin of every coarse edge

contract_vars ==
  <<hg, communities, clusters, pc, todo, mapping, num_coarse_nodes,
    coarse_pin_lists, permutation, coarse_edge_weights, num_coarse_nets,
    num_coarse_pins, offsets_for_fine_nets, chg, cursor>>

(***************************************************************************)
(* State of a scheduler (SchedulerBase<Derived> and its Derived class) and *)
(* of the threads that call it.                                            *)
(***************************************************************************)
VARIABLES
  Derived,             \* the scheduler class in use, or "none"
  _quotient_graph,
  _round_edges,
  _active_blocks,
  _locked_blocks,
  _tasks_on_block,
  _schedule_mutex,     \* TRUE while a scoped_lock holds it
  main,                \* the thread that calls getInitialParallelEdges
  initialEdges,        \* the vector getInitialParallelEdgesImpl builds
  feeder,              \* block pairs handed to parallel_do whose task has not ended
  calls,               \* tasks inside scheduleNextBlocksImpl: position and index i
  history              \* the round so far: edges at its start, dispatches per edge

scheduler_vars ==
  <<Derived, _quotient_graph, _round_edges, _active_blocks, _locked_blocks,
    _tasks_on_block, _schedule_mutex, main, initialEdges, feeder, calls, history>>

VARIABLES
  _node_lock,          \* OptScheduler: the lock word of every vertex
  aquired,             \* per task, the vertices it aquired and has not released
  attempt              \* the last tryAquireNode call and what it returned

node_lock_vars == <<_node_lock, aquired, attempt>>

VARIABLES
  partWeight,          \* _hg.partWeight(b) when init_block_weights ran
  _block_weights,
  _rw_locks,           \* per row: the writer holding it, the readers holding it
  refiners             \* per task, the call it is in and the locals of that call

block_weight_vars == <<partWeight, _block_weights, _rw_locks, refiners>>

VARIABLES
  phg,                 \* _hg: the partitioned hypergraph
  _block_pair_cut_he,
  edge_list,           \* the std::set<edge> of buildQuotientGraph
  unvisited            \* hyperedges the loop of buildQuotientGraph has not visited

quotient_vars == <<phg, _block_pair_cut_he, edge_list, unvisited>>

VARIABLES
  movers,              \* per thread, the call of changeNodePart or
                       \* blockPairCutHyperedges it is in and its locals
  num_moves            \* calls of changeNodePart so far

cut_vars == <<movers, num_moves>>

VARIABLES
  local_searches,      \* the priority queue of (gain, search) pairs
  finishedTasks,       \* sharedData.finishedTasks
  finishedTasksLimit,  \* sharedData.finishedTasksLimit
  m_,                  \* the spin mutex m of the queue: 0 or the worker holding it
  workers,             \* per worker of the task group, its position and search
  resumes,             \* per search, how often it can still return a gain
  tg_returned          \* performLocalSearches has returned

ls_vars ==
  <<local_searches, finishedTasks, finishedTasksLimit, m_, workers, resumes, tg_returned>>

VARIABLES
  moveOrder,           \* sharedData.moveTracker.moveOrder
  fm                   \* the position of the FM search and its locals

tracker_vars == <<moveOrder, fm>>

VARIABLES
  pin_count_in_part,   \* per hyperedge and block, the number of its pins there
  connectivity_set,    \* per hyperedge, the blocks in which it has a pin
  part_weight,         \* per block, the weight of its vertices
  max_part_weight,     \* the largest weight a block may have
  callers,             \* per thread, the call of change_part it is in
  num_calls            \* calls of change_part so far

part_vars ==
  <<pin_count_in_part, connectivity_set, part_weight, max_part_weight, callers,
    num_calls>>

VARIABLES
  flow_context,        \* the flow algorithm, the objective and its value before refine
  flow_tasks           \* per thread, the block pair it refines and its locals

flow_vars == <<flow_context, flow_tasks>>

\* the FM refinement, the partition data and the flow refinement
fm_vars == <<ls_vars, tracker_vars, part_vars, flow_vars>>

\* the parts of the refinement engine besides the block pair schedulers
search_vars == <<cut_vars, fm_vars>>

refinement_vars ==
  <<scheduler_vars, node_lock_vars, block_weight_vars, quotient_vars, search_vars>>

VARIABLES
  graph,               \* the StaticGraph that construct builds
  construct_args,      \* the arguments of StaticGraphFactory::construct
  construct_locals     \* its position and its local variables

graph_vars == <<graph, construct_args, construct_locals>>

VARIABLES
  writer_lock,         \* parallel::queue: manages access to the writer queue
  deactivated,
  writer_queue,
  reader_queue,
  queue_threads,       \* per thread, the call of the queue it is in and its locals
  queue_log            \* the values written and read so far

queue_vars ==
  <<writer_lock, deactivated, writer_queue, reader_queue, queue_threads, queue_log>>

VARIABLES
  nl_hypergraph,       \* the DynamicHypergraph, its partition, the original
  nl_contractions,     \* the mementos, the removed hyperedges, the position
  nl_pool,             \* versionedPools: the groups, the active and finished ones
  nl_lock_manager,     \* per vertex, the group that holds its lock
  nl_threads           \* per thread of the uncontraction, its position and group

nlevel_vars ==
  <<nl_hypergraph, nl_contractions, nl_pool, nl_lock_manager, nl_threads>>

VARIABLES
  ilp_phg,             \* the partitioned hypergraph and the vertices handed over
  ilp_hg,              \* the members of the ILPHypergraph
  ilp_pins             \* the pins that the calls of pins(e) yielded

ilp_vars == <<ilp_phg, ilp_hg, ilp_pins>>

\* the data structures besides the hypergraphs: none of them is shared with
\* the parts above
ds_vars == <<graph_vars, queue_vars, nlevel_vars, ilp_vars>>

not_contract_vars == <<refinement_vars, ds_vars>>

vars == <<contract_vars, refinement_vars, ds_vars>>

\* the values of the variables of a part of the program that is not running
NoScheduler ==
  /\ Derived = "none"
  /\ _quotient_graph = <<>>
  /\ _round_edges = <<>>
  /\ _active_blocks = <<>>
  /\ _locked_blocks = <<>>
  /\ _tasks_on_block = <<>>
  /\ _schedule_mutex = FALSE
  /\ main = [pc |-> "none", i |-> 0]
  /\ initialEdges = <<>>
  /\ feeder = {}
  /\ calls = <<>>
  /\ history = <<>>

NoNodeLocks == _node_lock = <<>> /\ aquired = <<>> /\ attempt = <<>>

NoBlockWeights ==
  partWeight = <<>> /\ _block_weights = <<>> /\ _rw_locks = <<>> /\ refiners = <<>>

NoQuotientBuild ==
  phg = <<>> /\ _block_pair_cut_he = <<>> /\ edge_list = {} /\ unvisited = {}

NoCutEdges == movers = <<>> /\ num_moves = 0

NoLocalSearches ==
  /\ local_searches = {}
  /\ finishedTasks = 0
  /\ finishedTasksLimit = 0
  /\ m_ = 0
  /\ workers = <<>>
  /\ resumes = <<>>
  /\ tg_returned = FALSE

NoTracker == moveOrder = <<>> /\ fm = [pc |-> "none"]

NoPartData ==
  /\ pin_count_in_part = <<>>
  /\ connectivity_set = <<>>
  /\ part_weight = <<>>
  /\ max_part_weight = 0
  /\ callers = <<>>
  /\ num_calls = 0

NoFlow == flow_context = <<>> /\ flow_tasks = <<>>

NoFM == NoLocalSearches /\ NoTracker /\ NoPartData /\ NoFlow

NoSearch == NoCutEdges /\ NoFM

NoRefinement ==
  NoScheduler /\ NoNodeLocks /\ NoBlockWeights /\ NoQuotientBuild /\ NoSearch

NoGraph == graph = <<>> /\ construct_args = <<>> /\ construct_locals = <<>>

NoQueue ==
  /\ writer_lock = FALSE /\ deactivated = FALSE /\ writer_queue = <<>>
  /\ reader_queue = <<>> /\ queue_threads = <<>> /\ queue_log = <<>>

NoNLevel ==
  /\ nl_hypergraph = <<>> /\ nl_contractions = <<>> /\ nl_pool = <<>>
  /\ nl_lock_manager = <<>> /\ nl_threads = <<>>

NoILP == ilp_phg = <<>> /\ ilp_hg = <<>> /\ ilp_pins = <<>>

NoDataStructures == NoGraph /\ NoQueue /\ NoNLevel /\ NoILP

FineNodes == 0..(hg.n - 1)
FineEdges == 0..(hg.m - 1)

nodeIsEnabled(u) == hg.enabled[u]

\* doParallelForAllNodes visits the enabled vertices
EnabledNodes == {u \in FineNodes : nodeIsEnabled(u)}

\* doParallelForAllEdges visits the hyperedges
AllEdges == FineEdges

EmptyHypergraph ==
  [_num_hypernodes |-> 0, _num_hyperedges |-> 0, _num_pins |-> 0,
   _total_degree |-> 0, _total_weight |-> 0, _max_edge_size |-> 0,
   _hypernodes |-> <<>>, _hyperedges |-> <<>>,
   _incident_nets |-> <<>>, _incidence_array |-> <<>>,
   _community_ids |-> <<>>]

ContractInit ==
  /\ \E in \in ContractInputs(NumNodes, NumEdges) :
       /\ hg = in[1]
       /\ communities = in[2]
       /\ clusters = in[2]
       \* vec<HypernodeID> mapping(initialNumNodes(), 0)
       /\ mapping = [c \in 0..(in[1].n - 1) |-> 0]
       /\ todo = 0..(in[1].n - 1)
  /\ pc = "compactify_mark"
  /\ num_coarse_nodes = 0
  /\ coarse_pin_lists = <<>>
  /\ permutation = <<>>
  /\ coarse_edge_weights = <<>>
  /\ num_coarse_nets = 0
  /\ num_coarse_pins = 0
  /\ offsets_for_fine_nets = <<>>
  /\ chg = EmptyHypergraph
  /\ cursor = <<>>
  \* the refinement schedulers are not running
  /\ NoRefinement /\ NoDataStructures


(***************************************************************************)
(* compactify: lines 68-77.                                                *)
(***************************************************************************)
\* tbb::parallel_for(0U, initialNumNodes(), ...): mapping[clusters[u]] = 1
CompactifyMark(u) ==
  /\ pc = "compactify_mark"
  /\ u \in todo
  /\ mapping' = [mapping EXCEPT ![clusters[u]] = 1]
  /\ todo' = todo \ {u}
  /\ UNCHANGED <<hg, communities, clusters, pc, num_coarse_nodes, coarse_pin_lists,
                 permutation, coarse_edge_weights, num_coarse_nets, num_coarse_pins,
                 offsets_for_fine_nets, chg, cursor>>

\* parallel_prefix_sum(first, last, d, std::plus<>(), 0): the inclusive prefix sum
RECURSIVE PrefixSumUpTo(_, _)
PrefixSumUpTo(a, i) == IF i < 0 THEN 0 ELSE a[i] + PrefixSumUpTo(a, i - 1)

parallel_prefix_sum(a) == [i \in DOMAIN a |-> PrefixSumUpTo(a, i)]

CompactifyPrefixSum ==
  /\ pc = "compactify_mark"
  /\ todo = {}
  /\ mapping' = parallel_prefix_sum(mapping)
  /\ num_coarse_nodes' = mapping'[hg.n - 1]
  /\ pc' = "compactify_apply"
  /\ todo' = FineNodes
  /\ UNCHANGED <<hg, communities, clusters, coarse_pin_lists, permutation,
                 coarse_edge_weights, num_coarse_nets, num_coarse_pins,
                 offsets_for_fine_nets, chg, cursor>>

\* clusters[u] = nodeIsEnabled(u) ? mapping[clusters[u]] - 1 : kInvalidHypernode
CompactifyApply(u) ==
  /\ pc = "compactify_apply"
  /\ u \in todo
  /\ clusters' = [clusters EXCEPT ![u] = IF nodeIsEnabled(u)
                                          THEN mapping[clusters[u]] - 1
                                          ELSE kInvalidHypernode]
  /\ todo' = todo \ {u}
  /\ UNCHANGED <<hg, communities, pc, mapping, num_coarse_nodes, coarse_pin_lists,
                 permutation, coarse_edge_weights, num_coarse_nets, num_coarse_pins,
                 offsets_for_fine_nets, chg, cursor>>

(***************************************************************************)
(* generate pinlists: lines 82-119.                                        *)
(***************************************************************************)
get_cluster(u) == clusters[u]

cs2(x) == x * x

\* struct ContractedHyperedgeInformation, default constructed
DefaultHyperedgeInformation ==
  [he |-> kInvalidHyperedge, hash |-> kEdgeHashSeed, size |-> SizeTMax, valid |-> FALSE]

\* operator< of ContractedHyperedgeInformation: std::tie(hash, size, he)
InfoLess(a, b) ==
  \/ a.hash < b.hash
  \/ a.hash = b.hash /\ a.size < b.size
  \/ a.hash = b.hash /\ a.size = b.size /\ a.he < b.he

AllocPinLists ==
  /\ pc = "compactify_apply"
  /\ todo = {}
  /\ coarse_pin_lists' = [he \in FineEdges |-> <<>>]
  /\ permutation' = [he \in FineEdges |-> DefaultHyperedgeInformation]
  /\ pc' = "generate_pinlists"
  /\ todo' = AllEdges
  /\ UNCHANGED <<hg, communities, clusters, mapping, num_coarse_nodes,
                 coarse_edge_weights, num_coarse_nets, num_coarse_pins,
                 offsets_for_fine_nets, chg, cursor>>

\* MapPins without the bitmap test of line 97: a coarse pin can come twice
RECURSIVE MapPinsNoBitmap(_, _, _)
MapPinsNoBitmap(pins, i, pin_list) ==
  IF i > Len(pins) THEN pin_list
  ELSE LET cv == get_cluster(pins[i])
       IN IF cv # kInvalidHypernode
          THEN MapPinsNoBitmap(pins, i + 1, Append(pin_list, cv))
          ELSE MapPinsNoBitmap(pins, i + 1, pin_list)

\* the loop of lines 95-102: pin_list after the pins from position i on are
\* mapped; the bits of `contained` that are set are the entries of pin_list
RECURSIVE MapPins(_, _, _)
MapPins(pins, i, pin_list) ==
  IF i > Len(pins) THEN pin_list
  ELSE LET cv == get_cluster(pins[i])
       IN IF cv # kInvalidHypernode /\ cv \notin Range(pin_list)
          THEN MapPins(pins, i + 1, Append(pin_list, cv))
          ELSE MapPins(pins, i + 1, pin_list)

RECURSIVE SumOfSquares(_, _)
SumOfSquares(pin_list, i) ==
  IF i > Len(pin_list) THEN 0 ELSE cs2(pin_list[i]) + SumOfSquares(pin_list, i + 1)

\* size_t edge_hash = 420; for (v : pin_list) edge_hash += cs2(v)
EdgeHash(pin_list) == 420 + SumOfSquares(pin_list, 1)

\* GeneratePinList with the test of line 111 off by one: single-pin nets stay
GeneratePinListKeepSinglePin(he) ==
  /\ pc = "generate_pinlists"
  /\ he \in todo
  /\ LET pin_list == MapPins(hg.pins[he], 1, <<>>)
     IN IF Len(pin_list) > 0
        THEN /\ coarse_pin_lists' = [coarse_pin_lists EXCEPT ![he] = pin_list]
             /\ permutation' = [permutation EXCEPT ![he] =
                  [he |-> he, hash |-> EdgeHash(pin_list), size |-> Len(pin_list),
                   valid |-> TRUE]]
        ELSE /\ coarse_pin_lists' = [coarse_pin_lists EXCEPT ![he] = <<>>]
             /\ permutation' = [permutation EXCEPT ![he] =
                  [he |-> he, hash |-> SizeTMax, size |-> 0, valid |-> FALSE]]
  /\ todo' = todo \ {he}
  /\ UNCHANGED <<hg, communities, clusters, pc, mapping, num_coarse_nodes,
                 coarse_edge_weights, num_coarse_nets, num_coarse_pins,
                 offsets_for_fine_nets, chg, cursor>>

GeneratePinList(he) ==
  /\ pc = "generate_pinlists"
  /\ he \in todo
  /\ LET pin_list == MapPins(hg.pins[he], 1, <<>>)
     IN IF Len(pin_list) > 1
        THEN /\ coarse_pin_lists' = [coarse_pin_lists EXCEPT ![he] = pin_list]
             /\ permutation' = [permutation EXCEPT ![he] =
                  [he |-> he, hash |-> EdgeHash(pin_list), size |-> Len(pin_list),
                   valid |-> TRUE]]
        ELSE \* pin_list.clear(): globally mark net as removed
             /\ coarse_pin_lists' = [coarse_pin_lists EXCEPT ![he] = <<>>]
             /\ permutation' = [permutation EXCEPT ![he] =
                  [he |-> he, hash |-> SizeTMax, size |-> 0, valid |-> FALSE]]
  /\ todo' = todo \ {he}
  /\ UNCHANGED <<hg, communities, clusters, pc, mapping, num_coarse_nodes,
                 coarse_edge_weights, num_coarse_nets, num_coarse_pins,
                 offsets_for_fine_nets, chg, cursor>>

(***************************************************************************)
(* identical net detection: lines 124-165.                                 *)
(***************************************************************************)
\* tbb::parallel_sort(permutation.begin(), permutation.end())
parallel_sort(perm) ==
  [i \in DOMAIN perm |->
     CHOOSE x \in Range(perm) :
       Cardinality({y \in Range(perm) : InfoLess(y, x)}) = i]

SortPermutation ==
  /\ pc = "generate_pinlists"
  /\ todo = {}
  /\ permutation' = parallel_sort(permutation)
  /\ coarse_edge_weights' = [he \in FineEdges |-> 0]
  /\ num_coarse_nets' = 0
  /\ num_coarse_pins' = 0
  /\ pc' = "identical_net_detection"
  /\ todo' = AllEdges
  /\ UNCHANGED <<hg, communities, clusters, mapping, num_coarse_nodes,
                 coarse_pin_lists, offsets_for_fine_nets, chg, cursor>>

\* Candidates with line 150 left out: the weight of a merged net is lost
RECURSIVE CandidatesDropWeight(_, _, _, _)
CandidatesDropWeight(st, hash, pos, j) ==
  LET rep == st.perm[pos]
  IN IF j < hg.m /\ hash = st.perm[j].hash /\ rep.size = st.perm[j].size
     THEN LET cand == st.perm[j]
              cand_pins == st.cpl[cand.he]
          IN IF cand.valid /\ \A v \in Range(cand_pins) : v \in Range(st.cpl[rep.he])
             THEN CandidatesDropWeight([perm |-> [st.perm EXCEPT ![j].valid = FALSE],
                                        cpl |-> [st.cpl EXCEPT ![cand.he] = <<>>],
                                        rep_weight |-> st.rep_weight],
                                       hash, pos, j + 1)
             ELSE CandidatesDropWeight(st, hash, pos, j + 1)
     ELSE st

\* Candidates without the all_of test of line 148: equal fingerprint and size
\* are taken for equal pins
RECURSIVE CandidatesByFingerprint(_, _, _, _)
CandidatesByFingerprint(st, hash, pos, j) ==
  LET rep == st.perm[pos]
  IN IF j < hg.m /\ hash = st.perm[j].hash /\ rep.size = st.perm[j].size
     THEN LET cand == st.perm[j]
          IN IF cand.valid
             THEN CandidatesByFingerprint([perm |-> [st.perm EXCEPT ![j].valid = FALSE],
                                           cpl |-> [st.cpl EXCEPT ![cand.he] = <<>>],
                                           rep_weight |-> st.rep_weight + hg.ew[cand.he]],
                                          hash, pos, j + 1)
             ELSE CandidatesByFingerprint(st, hash, pos, j + 1)
     ELSE st

\* the candidate loop of lines 143-153 from position j on, for the
\* representative at position pos; st = [perm, cpl, rep_weight]
RECURSIVE Candidates(_, _, _, _)
Candidates(st, hash, pos, j) ==
  LET rep == st.perm[pos]
  IN IF j < hg.m /\ hash = st.perm[j].hash /\ rep.size = st.perm[j].size
     THEN LET cand == st.perm[j]
              cand_pins == st.cpl[cand.he]
          IN IF cand.valid /\ \A v \in Range(cand_pins) : v \in Range(st.cpl[rep.he])
             THEN Candidates([perm |-> [st.perm EXCEPT ![j].valid = FALSE],
                              cpl |-> [st.cpl EXCEPT ![cand.he] = <<>>],
                              rep_weight |-> st.rep_weight + hg.ew[cand.he]],
                             hash, pos, j + 1)
             ELSE Candidates(st, hash, pos, j + 1)
     ELSE st

\* the loop of lines 136-160 from position pos on;
\* st = [perm, cpl, cew, nets, pins]
RECURSIVE Representatives(_, _, _)
Representatives(st, hash, pos) ==
  IF pos < hg.m /\ hash = st.perm[pos].hash
  THEN LET rep == st.perm[pos]
       IN IF rep.valid
          THEN LET c == Candidates([perm |-> st.perm, cpl |-> st.cpl,
                                    rep_weight |-> hg.ew[rep.he]], hash, pos, pos + 1)
               IN Representatives(
                    [perm |-> c.perm, cpl |-> c.cpl,
                     cew |-> [st.cew EXCEPT ![rep.he] = c.rep_weight],
                     nets |-> st.nets + 1,
                     pins |-> st.pins + Len(c.cpl[rep.he])],
                    hash, pos + 1)
          ELSE Representatives(st, hash, pos + 1)
  ELSE st

IdenticalNetDetection(pos) ==
  /\ pc = "identical_net_detection"
  /\ pos \in todo
  /\ IF (pos = 0 \/ permutation[pos].hash # permutation[pos - 1].hash)
        /\ permutation[pos].valid
     THEN LET r == Representatives([perm |-> permutation, cpl |-> coarse_pin_lists,
                                    cew |-> coarse_edge_weights, nets |-> 0, pins |-> 0],
                                   permutation[pos].hash, pos)
          IN /\ permutation' = r.perm
             /\ coarse_pin_lists' = r.cpl
             /\ coarse_edge_weights' = r.cew
             /\ num_coarse_nets' = num_coarse_nets + r.nets
             /\ num_coarse_pins' = num_coarse_pins + r.pins
     ELSE UNCHANGED <<permutation, coarse_pin_lists, coarse_edge_weights,
                      num_coarse_nets, num_coarse_pins>>
  /\ todo' = todo \ {pos}
  /\ UNCHANGED <<hg, communities, clusters, pc, mapping, num_coarse_nodes,
                 offsets_for_fine_nets, chg, cursor>>

(***************************************************************************)
(* allocs, write pin lists: lines 207-268.                                 *)
(***************************************************************************)
\* a default constructed Hypernode / Hyperedge, as vector::resize creates it
DefaultEntry == [_begin |-> 0, _size |-> 0, _weight |-> 1, _valid |-> FALSE]

\* net_size_prefix_sum without line 243: the weight stays the default
RECURSIVE net_size_prefix_sum_no_weight(_, _)
net_size_prefix_sum_no_weight(st, he) ==
  IF he >= hg.m THEN st
  ELSE IF coarse_pin_lists[he] # <<>>
       THEN net_size_prefix_sum_no_weight(
              [net_size_sum |-> st.net_size_sum + Len(coarse_pin_lists[he]),
               coarse_net_id |-> st.coarse_net_id + 1,
               hyperedges |-> [st.hyperedges EXCEPT ![st.coarse_net_id] =
                                 [_begin |-> st.net_size_sum,
                                  _size |-> Len(coarse_pin_lists[he]),
                                  _weight |-> @._weight,
                                  _valid |-> TRUE]],
               offsets |-> [st.offsets EXCEPT ![he] = st.net_size_sum]],
              he + 1)
       ELSE net_size_prefix_sum_no_weight(st, he + 1)

\* net_size_prefix_sum as the final scan, from fine hyperedge he on;
\* st = [net_size_sum, coarse_net_id, hyperedges, offsets]
RECURSIVE net_size_prefix_sum(_, _)
net_size_prefix_sum(st, he) ==
  IF he >= hg.m THEN st
  ELSE IF coarse_pin_lists[he] # <<>>
       THEN net_size_prefix_sum(
              [net_size_sum |-> st.net_size_sum + Len(coarse_pin_lists[he]),
               coarse_net_id |-> st.coarse_net_id + 1,
               hyperedges |-> [st.hyperedges EXCEPT ![st.coarse_net_id] =
                                 [_begin |-> st.net_size_sum,
                                  _size |-> Len(coarse_pin_lists[he]),
                                  _weight |-> coarse_edge_weights[he],
                                  _valid |-> TRUE]],
               offsets |-> [st.offsets EXCEPT ![he] = st.net_size_sum]],
              he + 1)
       ELSE net_size_prefix_sum(st, he + 1)

EmitCoarseEdges ==
  /\ pc = "identical_net_detection"
  /\ todo = {}
  /\ LET scan == net_size_prefix_sum(
                   [net_size_sum |-> 0, coarse_net_id |-> 0,
                    hyperedges |-> [e \in 0..(num_coarse_nets - 1) |-> DefaultEntry],
                    offsets |-> [he \in FineEdges |-> 0]], 0)
     IN /\ chg' = [_num_hypernodes |-> num_coarse_nodes,
                   _num_hyperedges |-> num_coarse_nets,
                   _num_pins |-> num_coarse_pins,
                   _total_degree |-> num_coarse_pins,
                   _total_weight |-> hg.total_weight,
                   _max_edge_size |-> 0,
                   _hypernodes |-> [u \in 0..(num_coarse_nodes - 1) |-> DefaultEntry],
                   _hyperedges |-> scan.hyperedges,
                   _incident_nets |-> [i \in 0..(num_coarse_pins - 1) |-> 0],
                   _incidence_array |-> [i \in 0..(num_coarse_pins - 1) |-> 0],
                   _community_ids |-> [u \in 0..(num_coarse_nodes - 1) |-> 0]]
        /\ offsets_for_fine_nets' = scan.offsets
  /\ pc' = "write_pin_lists"
  /\ todo' = AllEdges
  /\ UNCHANGED <<hg, communities, clusters, mapping, num_coarse_nodes,
                 coarse_pin_lists, permutation, coarse_edge_weights, num_coarse_nets,
                 num_coarse_pins, cursor>>

\* the loop of lines 263-266 over pin_list from index i on, writing at pos;
\* st = [incidence_array, hypernodes]
RECURSIVE CopyPins(_, _, _, _)
CopyPins(st, pin_list, i, pos) ==
  IF i > Len(pin_list) THEN st
  ELSE LET v == pin_list[i]
       IN CopyPins([incidence_array |-> [st.incidence_array EXCEPT ![pos] = v],
                    hypernodes |-> [st.hypernodes EXCEPT ![v]._size = @ + 1]],
                   pin_list, i + 1, pos + 1)

WritePinList(he) ==
  /\ pc = "write_pin_lists"
  /\ he \in todo
  /\ IF coarse_pin_lists[he] # <<>>
     THEN LET w == CopyPins([incidence_array |-> chg._incidence_array,
                             hypernodes |-> chg._hypernodes],
                            coarse_pin_lists[he], 1, offsets_for_fine_nets[he])
          IN chg' = [chg EXCEPT !._incidence_array = w.incidence_array,
                                !._hypernodes = w.hypernodes]
     ELSE UNCHANGED chg
  /\ todo' = todo \ {he}
  /\ UNCHANGED <<hg, communities, clusters, pc, mapping, num_coarse_nodes,
                 coarse_pin_lists, permutation, coarse_edge_weights, num_coarse_nets,
                 num_coarse_pins, offsets_for_fine_nets, cursor>>

(***************************************************************************)
(* write incident nets: lines 273-299.                                     *)
(***************************************************************************)
\* degree_prefix_sum as the final scan, from coarse vertex u on
RECURSIVE degree_prefix_sum(_, _, _)
degree_prefix_sum(hypernodes, u, sum) ==
  IF u >= num_coarse_nodes THEN hypernodes
  ELSE degree_prefix_sum([hypernodes EXCEPT ![u]._valid = TRUE, ![u]._begin = sum],
                         u + 1, sum + hypernodes[u]._size)

DegreePrefixSum ==
  /\ pc = "write_pin_lists"
  /\ todo = {}
  /\ chg' = [chg EXCEPT !._hypernodes = degree_prefix_sum(chg._hypernodes, 0, 0)]
  /\ cursor' = [he \in 0..(num_coarse_nets - 1) |-> 0]
  /\ pc' = "write_incident_nets"
  /\ todo' = 0..(num_coarse_nodes - 1)
  /\ UNCHANGED <<hg, communities, clusters, mapping, num_coarse_nodes,
                 coarse_pin_lists, permutation, coarse_edge_weights, num_coarse_nets,
                 num_coarse_pins, offsets_for_fine_nets>>

\* one iteration of the loop of lines 287-290 for coarse hyperedge he:
\* pos = fetch_add(_hypernodes[v]._begin, 1); _incident_nets[pos] = he
WriteIncidentNet(he) ==
  /\ pc = "write_incident_nets"
  /\ he \in DOMAIN cursor
  /\ cursor[he] < chg._hyperedges[he]._size
  /\ LET v == chg._incidence_array[chg._hyperedges[he]._begin + cursor[he]]
         pos == chg._hypernodes[v]._begin
     IN chg' = [chg EXCEPT !._hypernodes[v]._begin = @ + 1,
                           !._incident_nets[pos] = he]
  /\ cursor' = [cursor EXCEPT ![he] = @ + 1]
  /\ UNCHANGED <<hg, communities, clusters, pc, todo, mapping, num_coarse_nodes,
                 coarse_pin_lists, permutation, coarse_edge_weights, num_coarse_nets,
                 num_coarse_pins, offsets_for_fine_nets>>

IncidentNetsWritten == \A he \in DOMAIN cursor : cursor[he] = chg._hyperedges[he]._size

\* SortWindow without the std::sort of lines 297-298
SortWindowUnsorted(a, lo, hi) == a

\* std::sort of the window [lo, hi) of array a
SortWindow(a, lo, hi) ==
  LET sorted == SortedSeqOf([k \in 1..(hi - lo) |-> a[lo + k - 1]])
  IN [i \in DOMAIN a |-> IF lo <= i /\ i < hi THEN sorted[i - lo + 1] ELSE a[i]]

\* lines 294-299: reset the begin pointer and sort the window of u
ResetBegin(u) ==
  /\ pc = "write_incident_nets"
  /\ IncidentNetsWritten
  /\ u \in todo
  /\ LET begin == chg._hypernodes[u]._begin - chg._hypernodes[u]._size
     IN chg' = [chg EXCEPT
                  !._hypernodes[u]._weight = 0,
                  !._hypernodes[u]._begin = begin,
                  !._incident_nets = SortWindow(@, begin, begin + chg._hypernodes[u]._size)]
  /\ todo' = todo \ {u}
  /\ UNCHANGED <<hg, communities, clusters, pc, mapping, num_coarse_nodes,
                 coarse_pin_lists, permutation, coarse_edge_weights, num_coarse_nets,
                 num_coarse_pins, offsets_for_fine_nets, cursor>>

(***************************************************************************)
(* find max edge size, aggregate node weights: lines 304-323.              *)
(***************************************************************************)
RECURSIVE find_max_net_size(_, _)
find_max_net_size(e, max_net_size) ==
  IF e >= num_coarse_nets THEN max_net_size
  ELSE find_max_net_size(e + 1, Max2(max_net_size, chg._hyperedges[e]._size))

FindMaxEdgeSize ==
  /\ pc = "write_incident_nets"
  /\ IncidentNetsWritten
  /\ todo = {}
  /\ chg' = [chg EXCEPT !._max_edge_size = find_max_net_size(0, 0)]
  /\ pc' = "aggregate_node_weights"
  /\ todo' = EnabledNodes
  /\ UNCHANGED <<hg, communities, clusters, mapping, num_coarse_nodes,
                 coarse_pin_lists, permutation, coarse_edge_weights, num_coarse_nets,
                 num_coarse_pins, offsets_for_fine_nets, cursor>>

\* chg.setCommunityID(u, id): a plain store
setCommunityID(community_ids, u, id) == [community_ids EXCEPT ![u] = id]

\* AggregateNodeWeight with a plain store in place of the fetch_add
AggregateNodeWeightStore(u) ==
  /\ pc = "aggregate_node_weights"
  /\ u \in todo
  /\ chg' = [chg EXCEPT
               !._hypernodes[get_cluster(u)]._weight = hg.nw[u],
               !._community_ids = setCommunityID(@, get_cluster(u), hg.community[u])]
  /\ todo' = todo \ {u}
  /\ UNCHANGED <<hg, communities, clusters, pc, mapping, num_coarse_nodes,
                 coarse_pin_lists, permutation, coarse_edge_weights, num_coarse_nets,
                 num_coarse_pins, offsets_for_fine_nets, cursor>>

\* lines 315-318: fetch_add of the weight, then the store of the community
AggregateNodeWeight(u) ==
  /\ pc = "aggregate_node_weights"
  /\ u \in todo
  /\ chg' = [chg EXCEPT
               !._hypernodes[get_cluster(u)]._weight = @ + hg.nw[u],
               !._community_ids = setCommunityID(@, get_cluster(u), hg.community[u])]
  /\ todo' = todo \ {u}
  /\ UNCHANGED <<hg, communities, clusters, pc, mapping, num_coarse_nodes,
                 coarse_pin_lists, permutation, coarse_edge_weights, num_coarse_nets,
                 num_coarse_pins, offsets_for_fine_nets, cursor>>

\* return chg
Return ==
  /\ pc = "aggregate_node_weights"
  /\ todo = {}
  /\ pc' = "done"
  /\ UNCHANGED <<hg, communities, clusters, todo, mapping, num_coarse_nodes,
                 coarse_pin_lists, permutation, coarse_edge_weights, num_coarse_nets,
                 num_coarse_pins, offsets_for_fine_nets, chg, cursor>>

ContractNext ==
  \/ \E u \in FineNodes : CompactifyMark(u) /\ UNCHANGED not_contract_vars
  \/ CompactifyPrefixSum /\ UNCHANGED not_contract_vars
  \/ \E u \in FineNodes : CompactifyApply(u) /\ UNCHANGED not_contract_vars
  \/ AllocPinLists /\ UNCHANGED not_contract_vars
  \/ \E he \in FineEdges : GeneratePinList(he) /\ UNCHANGED not_contract_vars
  \/ SortPermutation /\ UNCHANGED not_contract_vars
  \/ \E pos \in FineEdges : IdenticalNetDetection(pos) /\ UNCHANGED not_contract_vars
  \/ EmitCoarseEdges /\ UNCHANGED not_contract_vars
  \/ \E he \in FineEdges : WritePinList(he) /\ UNCHANGED not_contract_vars
  \/ DegreePrefixSum /\ UNCHANGED not_contract_vars
  \/ \E he \in DOMAIN cursor : WriteIncidentNet(he) /\ UNCHANGED not_contract_vars
  \/ \E u \in 0..(num_coarse_nodes - 1) : ResetBegin(u) /\ UNCHANGED not_contract_vars
  \/ FindMaxEdgeSize /\ UNCHANGED not_contract_vars
  \/ \E u \in FineNodes : AggregateNodeWeight(u) /\ UNCHANGED not_contract_vars
  \/ Return /\ UNCHANGED not_contract_vars

SpecContract == ContractInit /\ [][ContractNext]_vars

(***************************************************************************)
(* Vocabulary of the properties of contract.                               *)
(***************************************************************************)
Returned == pc = "done"

CoarseNodes == 0..(chg._num_hypernodes - 1)
CoarseEdges == 0..(chg._num_hyperedges - 1)

\* the pin list of coarse hyperedge e: its window of the incidence array
CoarsePins(e) ==
  [k \in 1..chg._hyperedges[e]._size |->
     chg._incidence_array[chg._hyperedges[e]._begin + k - 1]]

\* the incident nets of coarse vertex u: its window of _incident_nets
CoarseIncidentNets(u) ==
  [k \in 1..chg._hypernodes[u]._size |->
     chg._incident_nets[chg._hypernodes[u]._begin + k - 1]]

\* the coarse ids of the enabled pins of fine hyperedge f, under the
\* rewritten cluster vector
ImageOfPins(f) == {clusters[v] : v \in {p \in Range(hg.pins[f]) : hg.enabled[p]}}

\* the fine hyperedges that keep at least two pins
SurvivingEdges == {f \in FineEdges : Cardinality(ImageOfPins(f)) >= 2}

\* the fine hyperedges whose image is the pin set of coarse hyperedge e
MergedInto(e) == {f \in FineEdges : ImageOfPins(f) = Range(CoarsePins(e))}

EdgeWeightSum(F) == SumOver(hg.ew, F)

C3_SinglePinNetsRemoved ==
  Returned =>
    /\ \A e \in CoarseEdges : Cardinality(Range(CoarsePins(e))) >= 2
    /\ \A f \in FineEdges :
         (\A e \in CoarseEdges : f \notin MergedInto(e))
           <=> Cardinality(ImageOfPins(f)) <= 1
    /\ SumOver([e \in CoarseEdges |-> chg._hyperedges[e]._weight], CoarseEdges)
         = EdgeWeightSum(SurvivingEdges)

\* one fine hyperedge has lost all but one pin and is gone, the other is kept
C3_Witness ==
  /\ Returned
  /\ hg.m = 2
  /\ Len(hg.pins[0]) >= 2
  /\ Cardinality(ImageOfPins(0)) = 1
  /\ Cardinality(ImageOfPins(1)) >= 2
  /\ chg._num_hyperedges = 1
  /\ chg._hyperedges[0]._weight = hg.ew[1]

\* C4: the rewritten cluster vector is a dense, order-preserving renumbering
\* of the ids of the enabled vertices: enabled vertices get ids below |V'|,
\* disabled ones the invalid id, equal ids stay equal and different ids stay
\* different and in order, every id below |V'| is the image of an enabled
\* vertex, and |V'| is the number of distinct ids of enabled vertices.
\* (Stated for hypergraphs with an enabled vertex.)
C4_DenseRenumbering ==
  (Returned /\ EnabledNodes # {}) =>
    /\ \A v \in FineNodes :
         IF hg.enabled[v] THEN clusters[v] \in CoarseNodes
                          ELSE clusters[v] = kInvalidHypernode
    /\ \A u, v \in EnabledNodes :
         /\ (clusters[u] = clusters[v]) <=> (communities[u] = communities[v])
         /\ (communities[u] < communities[v]) => (clusters[u] < clusters[v])
    /\ \A c \in CoarseNodes : \E v \in EnabledNodes : clusters[v] = c
    /\ chg._num_hypernodes = Cardinality({communities[v] : v \in EnabledNodes})

\* the weight contract_v2 has added to coarse vertex c so far
AggregatedWeight(c, done) ==
  SumOver(hg.nw, {v \in done : clusters[v] = c})

CoarseWeightSum ==
  SumOver([c \in CoarseNodes |-> chg._hypernodes[c]._weight], CoarseNodes)

\* C5 as amended: in every order of the aggregation the weight of coarse vertex
\* c is the sum of the weights of the enabled fine vertices of cluster c (while
\* the loop runs: of those already added), the coarse total_weight is the fine
\* total_weight, and the coarse vertex weights sum to the weight of the enabled
\* fine vertices.
C5_VertexWeightConserved ==
  /\ pc = "aggregate_node_weights" =>
       \A c \in CoarseNodes :
         chg._hypernodes[c]._weight = AggregatedWeight(c, EnabledNodes \ todo)
  /\ Returned =>
       /\ \A c \in CoarseNodes :
            chg._hypernodes[c]._weight = AggregatedWeight(c, EnabledNodes)
       /\ chg._total_weight = hg.total_weight
       /\ CoarseWeightSum = SumOver(hg.nw, EnabledNodes)

\* C5 as stated: moreover the coarse total_weight is the sum of the coarse
\* vertex weights.  (Stated for hypergraphs with an enabled vertex.)
C5_TotalWeightIsCoarseSum ==
  (Returned /\ EnabledNodes # {}) =>
    /\ \A c \in CoarseNodes :
         chg._hypernodes[c]._weight = AggregatedWeight(c, EnabledNodes)
    /\ chg._total_weight = hg.total_weight
    /\ chg._total_weight = CoarseWeightSum

\* two fine vertices were added into one coarse vertex, and the total weight
\* still counts a disabled vertex
C5_Witness ==
  /\ Returned
  /\ \E c \in CoarseNodes :
       Cardinality({v \in EnabledNodes : clusters[v] = c}) = 2
  /\ EnabledNodes # FineNodes
  /\ chg._total_weight > CoarseWeightSum

\* what the round trip needs of H: no disabled vertex, no hyperedge with less
\* than two pins, no two hyperedges with the same pins
RoundTripInput ==
  /\ communities = Identity(hg.n)
  /\ EnabledNodes = FineNodes
  /\ \A f \in FineEdges : Len(hg.pins[f]) >= 2
  /\ \A f, g \in FineEdges : f # g => Range(hg.pins[f]) # Range(hg.pins[g])

\* the coarse hypergraph has the vertices, hyperedges, weights and pin sets of
\* the fine one
SameAsFine ==
  /\ chg._num_hypernodes = hg.n
  /\ chg._num_hyperedges = hg.m
  /\ \A v \in FineNodes : chg._hypernodes[v]._weight = hg.nw[v]
  /\ \A e \in FineEdges :
       /\ chg._hyperedges[e]._weight = hg.ew[e]
       /\ Range(CoarsePins(e)) = Range(hg.pins[e])

\* C6 as amended: contracting with the identity returns H, if H has no
\* disabled vertex, no hyperedge with less than two pins and no two hyperedges
\* with the same pins.
C6_IdentityRoundTrip == (Returned /\ RoundTripInput) => SameAsFine

\* C6 as stated: contracting with the identity returns H.  (Stated for
\* hypergraphs without disabled vertices.)
C6_IdentityReturnsInput ==
  (Returned /\ communities = Identity(hg.n) /\ EnabledNodes = FineNodes) => SameAsFine

C6_Witness ==
  /\ Returned
  /\ RoundTripInput
  /\ hg.m = 2
  /\ chg._num_hyperedges = 2
  /\ CoarsePins(1) = hg.pins[1]

\* the window of coarse vertex u in _incident_nets
Window(u) ==
  chg._hypernodes[u]._begin..(chg._hypernodes[u]._begin + chg._hypernodes[u]._size - 1)

\* C7: the returned hypergraph is structurally sound in every order of the
\* scatter: the degrees and the sizes both sum to the number of pins, e is an
\* incident net of v exactly when v is a pin of e, the windows of the vertices
\* are disjoint parts of _incident_nets, and every window is ascending without
\* duplicates; a window is so as soon as its begin pointer is reset.
C7_StructuralInvariant ==
  /\ (pc = "write_incident_nets" /\ IncidentNetsWritten) =>
       \A u \in (0..(num_coarse_nodes - 1)) \ todo : IsSortedSeq(CoarseIncidentNets(u))
  /\ Returned =>
       /\ SumOver([u \in CoarseNodes |-> chg._hypernodes[u]._size], CoarseNodes)
            = chg._num_pins
       /\ SumOver([e \in CoarseEdges |-> chg._hyperedges[e]._size], CoarseEdges)
            = chg._num_pins
       /\ chg._total_degree = chg._num_pins
       /\ \A u \in CoarseNodes : \A e \in CoarseEdges :
            (e \in Range(CoarseIncidentNets(u))) <=> (u \in Range(CoarsePins(e)))
       /\ \A u \in CoarseNodes :
            /\ Window(u) \subseteq DOMAIN chg._incident_nets
            /\ Range(CoarseIncidentNets(u)) \subseteq CoarseEdges
            /\ IsSortedSeq(CoarseIncidentNets(u))
       /\ \A u, w \in CoarseNodes : u # w => Window(u) \cap Window(w) = {}

\* a coarse vertex with two incident nets and a coarse net with three pins
C7_Witness ==
  /\ Returned
  /\ \E u \in CoarseNodes : chg._hypernodes[u]._size >= 2
  /\ \E e \in CoarseEdges : chg._hyperedges[e]._size = 3
  /\ chg._num_pins = 5

\* the fine hyperedge coarse hyperedge e stands for: the first one merged into it
Representative(e) == CHOOSE f \in MergedInto(e) : \A g \in MergedInto(e) : f <= g

\* the position of the first enabled pin of f that is mapped to coarse vertex c
FirstPin(f, c) ==
  CHOOSE i \in DOMAIN hg.pins[f] :
    /\ hg.enabled[hg.pins[f][i]] /\ clusters[hg.pins[f][i]] = c
    /\ \A j \in 1..(i - 1) : ~(hg.enabled[hg.pins[f][j]] /\ clusters[hg.pins[f][j]] = c)

\* C8 as amended: the pins of every coarse hyperedge are unique, and they are
\* in the order in which their first fine pins stand in the first fine
\* hyperedge merged into it.
C8_PinsUniqueInFineOrder ==
  Returned =>
    \A e \in CoarseEdges :
      /\ NoDuplicates(CoarsePins(e))
      /\ \A i, j \in DOMAIN CoarsePins(e) :
           i < j => FirstPin(Representative(e), CoarsePins(e)[i])
                      < FirstPin(Representative(e), CoarsePins(e)[j])

\* C8 as stated: the pins of every coarse hyperedge are unique and ascending.
C8_PinsSortedAscending ==
  Returned => \A e \in CoarseEdges : IsSortedSeq(CoarsePins(e))

\* a coarse hyperedge whose pins are unique but not ascending
C8_Witness ==
  /\ Returned
  /\ \E e \in CoarseEdges :
       /\ NoDuplicates(CoarsePins(e))
       /\ ~IsSortedSeq(CoarsePins(e))
       /\ Len(hg.pins[Representative(e)]) > Len(CoarsePins(e))

(***************************************************************************)
(* The result of contract as a function of its inputs: what the run that   *)
(* executes every loop in index order returns.                             *)
(***************************************************************************)
\* the ids marked in line 70
MarkedIds == {communities[u] : u \in FineNodes}

ExpectedClusters ==
  [v \in FineNodes |->
     IF hg.enabled[v] THEN Cardinality({c \in MarkedIds : c < communities[v]})
                      ELSE kInvalidHypernode]

ExpectedImage(f) ==
  {ExpectedClusters[v] : v \in {p \in Range(hg.pins[f]) : hg.enabled[p]}}

\* the first fine hyperedge of every image of at least two pins
ExpectedRepresentatives ==
  {f \in FineEdges :
     /\ Cardinality(ExpectedImage(f)) >= 2
     /\ \A g \in FineEdges : g < f => ExpectedImage(g) # ExpectedImage(f)}

ExpectedRepresentative(e) ==
  CHOOSE f \in ExpectedRepresentatives :
    Cardinality({g \in ExpectedRepresentatives : g < f}) = e

\* the coarse pins of fine hyperedge f in the order of their first fine pins
RECURSIVE ExpectedPins(_, _)
ExpectedPins(f, i) ==
  IF i = 0 THEN <<>>
  ELSE LET before == ExpectedPins(f, i - 1)
           v == hg.pins[f][i]
       IN IF hg.enabled[v] /\ ExpectedClusters[v] \notin Range(before)
          THEN Append(before, ExpectedClusters[v])
          ELSE before

ExpectedIncidentNets(c) ==
  SetToSortedSeq({e \in 0..(Cardinality(ExpectedRepresentatives) - 1) :
                    c \in ExpectedImage(ExpectedRepresentative(e))})

\* the community stored last when the vertices are visited in index order
ExpectedCommunity(c) ==
  LET members == {v \in EnabledNodes : ExpectedClusters[v] = c}
  IN IF members = {} THEN 0
     ELSE hg.community[CHOOSE v \in members : \A w \in members : w <= v]

\* C9: contract is deterministic: in every order of the loop iterations the
\* rewritten cluster vector and the coarse hypergraph (hyperedge ids, pin
\* order, weights, incident nets, community ids) are those of the run in index
\* order.
C9_Deterministic ==
  Returned =>
    /\ clusters = ExpectedClusters
    /\ chg._num_hypernodes = Cardinality(MarkedIds)
    /\ chg._num_hyperedges = Cardinality(ExpectedRepresentatives)
    /\ \A e \in CoarseEdges :
         /\ CoarsePins(e) = ExpectedPins(ExpectedRepresentative(e),
                                         Len(hg.pins[ExpectedRepresentative(e)]))
         /\ chg._hyperedges[e]._weight =
              EdgeWeightSum({g \in FineEdges :
                               ExpectedImage(g) = ExpectedImage(ExpectedRepresentative(e))})
    /\ \A c \in CoarseNodes :
         /\ CoarseIncidentNets(c) = ExpectedIncidentNets(c)
         /\ chg._hypernodes[c]._weight = AggregatedWeight(c, EnabledNodes)
         /\ chg._community_ids[c] = ExpectedCommunity(c)

\* C9 without the community ids: everything else is a function of the inputs
C9_DeterministicButCommunity ==
  Returned =>
    /\ clusters = ExpectedClusters
    /\ chg._num_hypernodes = Cardinality(MarkedIds)
    /\ chg._num_hyperedges = Cardinality(ExpectedRepresentatives)
    /\ \A e \in CoarseEdges :
         /\ CoarsePins(e) = ExpectedPins(ExpectedRepresentative(e),
                                         Len(hg.pins[ExpectedRepresentative(e)]))
         /\ chg._hyperedges[e]._weight =
              EdgeWeightSum({g \in FineEdges :
                               ExpectedImage(g) = ExpectedImage(ExpectedRepresentative(e))})
    /\ \A c \in CoarseNodes :
         /\ CoarseIncidentNets(c) = ExpectedIncidentNets(c)
         /\ chg._hypernodes[c]._weight = AggregatedWeight(c, EnabledNodes)

\* C10: contract does not return a hypergraph when no cluster survives, that
\* is when no vertex of the hypergraph is enabled.
C10_NoSurvivorNoReturn == Returned => EnabledNodes # {}

(***************************************************************************)
(* Part 2: quotient_graph_block_scheduler.h.                               *)
(*                                                                         *)
(* A round: the main thread calls getInitialParallelEdges and hands the    *)
(* returned block pairs to tbb::parallel_do; the task of a pair refines    *)
(* the pair and then calls scheduleNextBlocks once, which may add further  *)
(* pairs to the feeder.  A pair is in flight from its dispatch until its   *)
(* task has run the first statements of scheduleNextBlocksImpl.            *)
(***************************************************************************)
NoContract ==
  /\ hg = <<>> /\ communities = <<>> /\ clusters = <<>> /\ pc = "none"
  /\ todo = {} /\ mapping = <<>> /\ num_coarse_nodes = 0
  /\ coarse_pin_lists = <<>> /\ permutation = <<>> /\ coarse_edge_weights = <<>>
  /\ num_coarse_nets = 0 /\ num_coarse_pins = 0 /\ offsets_for_fine_nets = <<>>
  /\ chg = <<>> /\ cursor = <<>>

not_scheduler_vars ==
  <<contract_vars, ds_vars, node_lock_vars, block_weight_vars, quotient_vars, search_vars>>

Blocks == 0..(NumBlocks - 1)

\* using edge = std::pair<PartitionID, PartitionID>, first < second
BlockPairs == {e \in Blocks \X Blocks : e[1] < e[2]}

\* operator< of std::pair
EdgeLess(e, f) == e[1] < f[1] \/ (e[1] = f[1] /\ e[2] < f[2])

\* the elements of a std::set<edge> in iteration order
RECURSIVE SortedEdges(_)
SortedEdges(S) ==
  IF S = {} THEN <<>>
  ELSE LET least == CHOOSE e \in S : \A f \in S \ {e} : EdgeLess(e, f)
       IN <<least>> \o SortedEdges(S \ {least})

Reverse(s) == [j \in 1..Len(s) |-> s[Len(s) + 1 - j]]

\* the quotient graphs of a round: what buildQuotientGraph leaves, and the
\* same edges after randomShuffleQoutientEdges put them in reverse order
QuotientGraphs ==
  {SortedEdges(S) : S \in SUBSET BlockPairs}
  \cup {Reverse(SortedEdges(S)) : S \in SUBSET BlockPairs}

\* the constructor, and the state the scheduler is in between two rounds:
\* nothing scheduled, no block locked, any blocks set active by setActiveBlock
SchedulerInit(derived) ==
  /\ Derived = derived
  /\ _quotient_graph \in QuotientGraphs
  /\ _round_edges = <<>>
  /\ _active_blocks \in [Blocks -> BOOLEAN]
  /\ _locked_blocks = [b \in Blocks |-> FALSE]
  /\ _tasks_on_block =
       IF derived = "OptScheduler" THEN [b \in Blocks |-> 0] ELSE <<>>
  /\ _schedule_mutex = FALSE
  /\ main = [pc |-> "getInitialParallelEdges", i |-> 0]
  /\ initialEdges = <<>>
  /\ feeder = {}
  /\ calls = <<>>
  /\ history = [round_edges |-> <<>>, active |-> <<>>,
                dispatched |-> [e \in BlockPairs |-> 0]]

\* the round's record of a dispatch of every edge of es
Dispatched(es) ==
  [history EXCEPT !.dispatched =
     [e \in BlockPairs |-> IF e \in es THEN @[e] + 1 ELSE @[e]]]

either_block_active(e) == _active_blocks[e[1]] \/ _active_blocks[e[2]]

\* line 97: _active_blocks[edge.first] && _active_blocks[edge.second]
both_blocks_active(e) == _active_blocks[e[1]] /\ _active_blocks[e[2]]

\* SchedulerBase::getInitialParallelEdges, up to the call of the Impl
getInitialParallelEdges ==
  /\ main.pc = "getInitialParallelEdges"
  /\ LET pushed ==
           _round_edges \o
           SelectSeq(_quotient_graph, LAMBDA e : both_blocks_active(e))
     IN /\ _round_edges' = pushed
        /\ history' = [history EXCEPT !.round_edges = pushed,
                                      !.active = _active_blocks]
  /\ main' = [pc |-> "getInitialParallelEdgesImpl", i |-> 0]
  /\ UNCHANGED <<Derived, _quotient_graph, _active_blocks, _locked_blocks,
                 _tasks_on_block, _schedule_mutex, initialEdges, feeder, calls>>
  /\ UNCHANGED not_scheduler_vars

(***************************************************************************)
(* MatchingScheduler.                                                      *)
(***************************************************************************)
\* !_locked_blocks[e.first] && !_locked_blocks[e.second]
schedulable(e) == ~_locked_blocks[e[1]] /\ ~_locked_blocks[e[2]]

lock_blocks(e) == [_locked_blocks EXCEPT ![e[1]] = TRUE, ![e[2]] = TRUE]

unlock_blocks(e) == [_locked_blocks EXCEPT ![e[1]] = FALSE, ![e[2]] = FALSE]

pop_back_only(edges, i) == SubSeq(edges, 1, Len(edges) - 1)

\* std::swap(_round_edges[i], _round_edges.back()); _round_edges.pop_back();
\* i counts from 0
swap_and_pop(edges, i) ==
  SubSeq([edges EXCEPT ![i + 1] = edges[Len(edges)]], 1, Len(edges) - 1)

after_removal_no_decrement(i) == i + 1

\* the i-- of the swap followed by the ++i of the loop; at i = 0 the size_t
\* wraps to its maximum and back
after_removal(i) == (i - 1) + 1

\* getInitialParallelEdgesImpl: one iteration of the loop
MatchingInitialScan ==
  /\ Derived = "MatchingScheduler"
  /\ main.pc = "getInitialParallelEdgesImpl"
  /\ main.i < Len(_round_edges)
  /\ LET e == _round_edges[main.i + 1] IN
       IF schedulable(e)
       THEN /\ initialEdges' = Append(initialEdges, e)
            /\ _locked_blocks' = lock_blocks(e)
            /\ _round_edges' = swap_and_pop(_round_edges, main.i)
            /\ main' = [main EXCEPT !.i = after_removal(main.i)]
       ELSE /\ main' = [main EXCEPT !.i = main.i + 1]
            /\ UNCHANGED <<initialEdges, _locked_blocks, _round_edges>>
  /\ UNCHANGED <<Derived, _quotient_graph, _active_blocks, _tasks_on_block,
                 _schedule_mutex, feeder, calls, history>>
  /\ UNCHANGED not_scheduler_vars

\* getInitialParallelEdgesImpl: the end of the loop and the return; the caller
\* hands the returned pairs to parallel_do
MatchingInitialReturn ==
  /\ Derived = "MatchingScheduler"
  /\ main.pc = "getInitialParallelEdgesImpl"
  /\ main.i >= Len(_round_edges)
  /\ _active_blocks' = [b \in Blocks |-> FALSE]
  /\ feeder' = Range(initialEdges)
  /\ history' = Dispatched(Range(initialEdges))
  /\ main' = [main EXCEPT !.pc = "parallel_do"]
  /\ UNCHANGED <<Derived, _quotient_graph, _round_edges, _locked_blocks,
                 _tasks_on_block, _schedule_mutex, initialEdges, calls>>
  /\ UNCHANGED not_scheduler_vars

spin_mutex_ignored(mutex) == TRUE

\* tbb::spin_mutex::scoped_lock: the constructor returns once the mutex is free
spin_mutex_free(mutex) == ~mutex

Without(f, x) == [y \in DOMAIN f \ {x} |-> f[y]]

\* scheduleNextBlocksImpl: take the mutex, unlock the blocks of old_edge
MatchingScheduleUnlock(old_edge) ==
  /\ Derived = "MatchingScheduler"
  /\ main.pc = "parallel_do"
  /\ old_edge \in feeder
  /\ old_edge \notin DOMAIN calls
  /\ spin_mutex_free(_schedule_mutex)
  /\ _schedule_mutex' = TRUE
  /\ _locked_blocks' = unlock_blocks(old_edge)
  /\ calls' = calls @@ (old_edge :> [pc |-> "scan", i |-> 0])
  /\ UNCHANGED <<Derived, _quotient_graph, _round_edges, _active_blocks,
                 _tasks_on_block, main, initialEdges, feeder, history>>
  /\ UNCHANGED not_scheduler_vars

\* scheduleNextBlocksImpl: the loop test and the test of the blocks of e
MatchingScanCheck(old_edge) ==
  /\ Derived = "MatchingScheduler"
  /\ old_edge \in DOMAIN calls
  /\ calls[old_edge].pc = "scan"
  /\ calls[old_edge].i < Len(_round_edges)
  /\ LET e == _round_edges[calls[old_edge].i + 1] IN
       calls' = IF schedulable(e)
                THEN [calls EXCEPT ![old_edge].pc = "dispatch"]
                ELSE [calls EXCEPT ![old_edge].i = @ + 1]
  /\ UNCHANGED <<Derived, _quotient_graph, _round_edges, _active_blocks,
                 _locked_blocks, _tasks_on_block, _schedule_mutex, main,
                 initialEdges, feeder, history>>
  /\ UNCHANGED not_scheduler_vars

\* scheduleNextBlocksImpl: lock the blocks of e, feeder.add(e), remove e
MatchingScanDispatch(old_edge) ==
  /\ Derived = "MatchingScheduler"
  /\ old_edge \in DOMAIN calls
  /\ calls[old_edge].pc = "dispatch"
  /\ calls[old_edge].i < Len(_round_edges)
  /\ LET i == calls[old_edge].i
         e == _round_edges[i + 1]
     IN /\ _locked_blocks' = lock_blocks(e)
        /\ feeder' = feeder \cup {e}
        /\ history' = Dispatched({e})
        /\ _round_edges' = swap_and_pop(_round_edges, i)
        /\ calls' = [calls EXCEPT ![old_edge] = [pc |-> "scan", i |-> after_removal(i)]]
  /\ UNCHANGED <<Derived, _quotient_graph, _active_blocks, _tasks_on_block,
                 _schedule_mutex, main, initialEdges>>
  /\ UNCHANGED not_scheduler_vars

\* scheduleNextBlocksImpl: the end of the loop; the lock is released and the
\* task of old_edge ends
MatchingScheduleReturn(old_edge) ==
  /\ Derived = "MatchingScheduler"
  /\ old_edge \in DOMAIN calls
  /\ calls[old_edge].pc = "scan"
  /\ calls[old_edge].i >= Len(_round_edges)
  /\ _schedule_mutex' = FALSE
  /\ calls' = Without(calls, old_edge)
  /\ feeder' = feeder \ {old_edge}
  /\ UNCHANGED <<Derived, _quotient_graph, _round_edges, _active_blocks,
                 _locked_blocks, _tasks_on_block, main, initialEdges, history>>
  /\ UNCHANGED not_scheduler_vars

MatchingInit == SchedulerInit("MatchingScheduler") /\ NoContract /\ NoDataStructures
                /\ NoNodeLocks /\ NoBlockWeights /\ NoQuotientBuild /\ NoSearch

MatchingNext ==
  \/ getInitialParallelEdges
  \/ MatchingInitialScan
  \/ MatchingInitialReturn
  \/ \E old_edge \in BlockPairs : MatchingScheduleUnlock(old_edge)
  \/ \E old_edge \in BlockPairs : MatchingScanCheck(old_edge)
  \/ \E old_edge \in BlockPairs : MatchingScanDispatch(old_edge)
  \/ \E old_edge \in BlockPairs : MatchingScheduleReturn(old_edge)

SpecMatching == MatchingInit /\ [][MatchingNext]_vars

\* every dispatched pair completes and calls scheduleNextBlocks
SpecMatchingFair == SpecMatching /\ WF_vars(MatchingNext)

(***************************************************************************)
(* Properties of the MatchingScheduler.                                    *)
(***************************************************************************)
\* the pairs dispatched and not yet completed
InFlight == feeder \ DOMAIN calls

BlocksOf(e) == {e[1], e[2]}

\* C11: under every interleaving of the scheduleNextBlocks calls the pairs in
\* flight form a matching (no block is in two of them), and once the round
\* runs _locked_blocks[b] is true exactly for the blocks of the pairs in flight.
C11_InFlightPairsAreMatching ==
  Derived = "MatchingScheduler" =>
    /\ \A e, f \in InFlight : e # f => BlocksOf(e) \cap BlocksOf(f) = {}
    /\ main.pc = "parallel_do" =>
         \A b \in Blocks : _locked_blocks[b] <=> \E e \in InFlight : b \in BlocksOf(e)

\* a task scans the round edges inside scheduleNextBlocks and has passed an
\* edge it could not schedule, while another pair is in flight
C11_Witness ==
  /\ Derived = "MatchingScheduler"
  /\ InFlight # {}
  /\ \E t \in DOMAIN calls : calls[t].pc = "scan" /\ calls[t].i > 0
  /\ Len(_round_edges) > 0
  /\ _schedule_mutex

\* getInitialParallelEdgesImpl has returned and no task has called back yet
InitialReturned ==
  /\ Derived = "MatchingScheduler"
  /\ main.pc = "parallel_do"
  /\ calls = <<>>
  /\ feeder = Range(initialEdges)

\* C12: the pairs getInitialParallelEdges returns are pairwise block-disjoint,
\* every quotient edge with two active blocks that is not returned shares a
\* block with a returned pair, and the returned pairs, and only they, have
\* left _round_edges.
C12_InitialEdgesAreMaximalMatching ==
  InitialReturned =>
    LET returned == Range(initialEdges)
        round == Range(history.round_edges)
    IN /\ NoDuplicates(initialEdges)
       /\ \A e, f \in returned : e # f => BlocksOf(e) \cap BlocksOf(f) = {}
       /\ round = {e \in Range(_quotient_graph) :
                     history.active[e[1]] /\ history.active[e[2]]}
       /\ returned \subseteq round
       /\ \A e \in round \ returned :
            \E f \in returned : BlocksOf(e) \cap BlocksOf(f) # {}
       /\ Range(_round_edges) = round \ returned
       /\ Len(_round_edges) + Len(initialEdges) = Len(history.round_edges)

\* two pairs are returned and the first removal moved the last round edge
\* to the front, where the scan took it
C12_Witness ==
  /\ InitialReturned
  /\ Len(initialEdges) = 2
  /\ Len(history.round_edges) >= 4
  /\ initialEdges[1] = history.round_edges[1]
  /\ initialEdges[2] = history.round_edges[Len(history.round_edges)]

RoundFinished == main.pc = "parallel_do" /\ feeder = {}

\* C13: when every dispatched pair completes and calls scheduleNextBlocks, no
\* edge is dispatched twice, the round ends, and when the last pair in flight
\* has completed every edge of the round was dispatched once, _round_edges is
\* empty and every block is unlocked.
C13_EveryRoundEdgeDispatchedOnce ==
  /\ [](\A e \in BlockPairs : history.dispatched[e] <= 1)
  /\ [](RoundFinished =>
          /\ _round_edges = <<>>
          /\ \A b \in Blocks : ~_locked_blocks[b]
          /\ \A e \in BlockPairs :
               history.dispatched[e] =
                 IF e \in Range(history.round_edges) THEN 1 ELSE 0)
  /\ <>RoundFinished

\* a round with all six block pairs has ended
C13_Witness ==
  /\ Derived = "MatchingScheduler"
  /\ RoundFinished
  /\ Len(history.round_edges) = 6
  /\ Len(initialEdges) = 2

(***************************************************************************)
(* OptScheduler.                                                           *)
(***************************************************************************)
\* the PartitionID that is no block
kInvalidPartition == -1

\* SchedulerBase::removeElement; index counts from 0
removeElement(index, vector) == swap_and_pop(vector, index)

RECURSIVE ScanBestLastMinimum(_, _, _)
ScanBestLastMinimum(i, best, independence) ==
  IF i >= Len(_round_edges) THEN [index |-> best, independence |-> independence]
  ELSE LET e == _round_edges[i + 1]
           temp_independence == Max2(_tasks_on_block[e[1]], _tasks_on_block[e[2]])
       IN IF temp_independence <= independence
          THEN ScanBestLastMinimum(i + 1, i, temp_independence)
          ELSE ScanBestLastMinimum(i + 1, best, independence)

\* getMostIndependentEdge: the loop from index i on; best_edge.index and
\* independence after it
RECURSIVE ScanBest(_, _, _)
ScanBest(i, best, independence) ==
  IF i >= Len(_round_edges) THEN [index |-> best, independence |-> independence]
  ELSE LET e == _round_edges[i + 1]
           temp_independence == Max2(_tasks_on_block[e[1]], _tasks_on_block[e[2]])
       IN IF temp_independence < independence
          THEN ScanBest(i + 1, i, temp_independence)
          ELSE ScanBest(i + 1, best, independence)

\* getMostIndependentEdge: the edge returned, and _round_edges and
\* _tasks_on_block after the call
getMostIndependentEdge ==
  LET found == ScanBest(0, 0, SizeTMax) IN
    IF found.independence < SizeTMax
    THEN LET e == _round_edges[found.index + 1] IN
           [e |-> e,
            _round_edges |-> removeElement(found.index, _round_edges),
            _tasks_on_block |->
              [_tasks_on_block EXCEPT ![e[1]] = @ + 1, ![e[2]] = @ + 1]]
    ELSE [e |-> <<kInvalidPartition, kInvalidPartition>>,
          _round_edges |-> _round_edges,
          _tasks_on_block |-> _tasks_on_block]

IsValidEdge(e) == e[1] # kInvalidPartition /\ e[2] # kInvalidPartition

\* getInitialParallelEdgesImpl: one iteration of the loop over the threads
OptInitialPick ==
  /\ Derived = "OptScheduler"
  /\ main.pc = "getInitialParallelEdgesImpl"
  /\ main.i < NumThreads
  /\ LET got == getMostIndependentEdge IN
       /\ initialEdges' = IF IsValidEdge(got.e) THEN Append(initialEdges, got.e)
                          ELSE initialEdges
       /\ _round_edges' = got._round_edges
       /\ _tasks_on_block' = got._tasks_on_block
  /\ main' = [main EXCEPT !.i = @ + 1]
  /\ UNCHANGED <<Derived, _quotient_graph, _active_blocks, _locked_blocks,
                 _schedule_mutex, feeder, calls, history>>
  /\ UNCHANGED not_scheduler_vars

\* getInitialParallelEdgesImpl: the end of the loop and the return
OptInitialReturn ==
  /\ Derived = "OptScheduler"
  /\ main.pc = "getInitialParallelEdgesImpl"
  /\ main.i >= NumThreads
  /\ _active_blocks' = [b \in Blocks |-> FALSE]
  /\ feeder' = Range(initialEdges)
  /\ history' = Dispatched(Range(initialEdges))
  /\ main' = [main EXCEPT !.pc = "parallel_do"]
  /\ UNCHANGED <<Derived, _quotient_graph, _round_edges, _locked_blocks,
                 _tasks_on_block, _schedule_mutex, initialEdges, calls>>
  /\ UNCHANGED not_scheduler_vars

tasks_not_released(old_edge) == _tasks_on_block

\* _tasks_on_block[old_edge.first]--; _tasks_on_block[old_edge.second]--;
tasks_released(old_edge) ==
  [_tasks_on_block EXCEPT ![old_edge[1]] = @ - 1, ![old_edge[2]] = @ - 1]

\* scheduleNextBlocksImpl: take the mutex, give up the blocks of old_edge
OptScheduleRelease(old_edge) ==
  /\ Derived = "OptScheduler"
  /\ main.pc = "parallel_do"
  /\ old_edge \in feeder
  /\ old_edge \notin DOMAIN calls
  /\ spin_mutex_free(_schedule_mutex)
  /\ _schedule_mutex' = TRUE
  /\ _tasks_on_block' = tasks_released(old_edge)
  /\ calls' = calls @@ (old_edge :> [pc |-> "pick", i |-> 0])
  /\ UNCHANGED <<Derived, _quotient_graph, _round_edges, _active_blocks,
                 _locked_blocks, main, initialEdges, feeder, history>>
  /\ UNCHANGED not_scheduler_vars

\* scheduleNextBlocksImpl: pick the next edge, feeder.add(e), return; the
\* task of old_edge ends
OptSchedulePick(old_edge) ==
  /\ Derived = "OptScheduler"
  /\ old_edge \in DOMAIN calls
  /\ calls[old_edge].pc = "pick"
  /\ LET got == getMostIndependentEdge IN
       /\ _round_edges' = got._round_edges
       /\ _tasks_on_block' = got._tasks_on_block
       /\ feeder' = (IF IsValidEdge(got.e) THEN feeder \cup {got.e} ELSE feeder)
                    \ {old_edge}
       /\ history' = IF IsValidEdge(got.e) THEN Dispatched({got.e}) ELSE history
  /\ _schedule_mutex' = FALSE
  /\ calls' = Without(calls, old_edge)
  /\ UNCHANGED <<Derived, _quotient_graph, _active_blocks, _locked_blocks,
                 main, initialEdges>>
  /\ UNCHANGED not_scheduler_vars

OptInit == SchedulerInit("OptScheduler") /\ NoContract /\ NoDataStructures
           /\ NoNodeLocks /\ NoBlockWeights /\ NoQuotientBuild /\ NoSearch

OptNext ==
  \/ getInitialParallelEdges
  \/ OptInitialPick
  \/ OptInitialReturn
  \/ \E old_edge \in BlockPairs : OptScheduleRelease(old_edge)
  \/ \E old_edge \in BlockPairs : OptSchedulePick(old_edge)

SpecOpt == OptInit /\ [][OptNext]_vars

(***************************************************************************)
(* Properties of the OptScheduler.                                         *)
(***************************************************************************)
\* the pairs picked and not yet given up by their task
OptInFlight ==
  (IF main.pc = "parallel_do" THEN feeder ELSE Range(initialEdges)) \ DOMAIN calls

TasksOn(b) == Cardinality({e \in OptInFlight : b \in BlocksOf(e)})

Independence(e) == Max2(_tasks_on_block[e[1]], _tasks_on_block[e[2]])

\* the pairs this step dispatches
NewlyDispatched ==
  IF main.pc = "parallel_do" THEN feeder' \ feeder
  ELSE IF main'.pc = "parallel_do" THEN {}
  ELSE Range(initialEdges') \ Range(initialEdges)

\* C14: _tasks_on_block[b] is the number of pairs in flight that contain b;
\* every dispatch takes the first edge of _round_edges, in list order, with the
\* least max(_tasks_on_block[b1], _tasks_on_block[b2]), removes it and
\* increments both counters; nothing is dispatched from an empty _round_edges.
C14_DispatchMostIndependentEdge ==
  /\ [](Derived = "OptScheduler" => \A b \in Blocks : _tasks_on_block[b] = TasksOn(b))
  /\ [][/\ (_round_edges = <<>>) => NewlyDispatched = {}
        /\ \A e \in NewlyDispatched :
             \E i \in DOMAIN _round_edges :
               /\ _round_edges[i] = e
               /\ \A j \in DOMAIN _round_edges :
                    /\ Independence(e) <= Independence(_round_edges[j])
                    /\ j < i => Independence(e) < Independence(_round_edges[j])
               /\ Len(_round_edges') = Len(_round_edges) - 1
               /\ Range(_round_edges') = Range(_round_edges) \ {e}
               /\ _tasks_on_block' =
                    [_tasks_on_block EXCEPT ![e[1]] = @ + 1, ![e[2]] = @ + 1]
        /\ (_round_edges' # _round_edges /\ main.pc # "getInitialParallelEdges")
             => NewlyDispatched # {}]_vars

\* scheduleNextBlocks has dispatched a pair that shares a block with a pair
\* in flight, and edges are left
C14_Witness ==
  /\ Derived = "OptScheduler"
  /\ main.pc = "parallel_do"
  /\ feeder \ Range(initialEdges) # {}
  /\ \E b \in Blocks : _tasks_on_block[b] = 2
  /\ Len(_round_edges) > 0

\* C15: the number of tasks on a block is capped: never more pairs are in
\* flight than there are threads, so _tasks_on_block[b] is at most the number
\* of threads.
C15_TasksOnBlockCapped ==
  Derived = "OptScheduler" =>
    /\ Cardinality(OptInFlight) <= NumThreads
    /\ \A b \in Blocks : _tasks_on_block[b] <= NumThreads

\* as many tasks on one block as there are threads, and a further edge of
\* that block waits
C15_Witness ==
  /\ Derived = "OptScheduler"
  /\ main.pc = "parallel_do"
  /\ \E b \in Blocks :
       /\ _tasks_on_block[b] = NumThreads
       /\ \E e \in Range(_round_edges) : b \in BlocksOf(e)

(***************************************************************************)
(* OptScheduler: node ownership.  The tasks of the pairs in flight call    *)
(* tryAquireNode and releaseNode while they refine.                        *)
(***************************************************************************)
LockNodes == 0..(NumLockNodes - 1)

\* the value a task stores: (block_0 * k) + block_1
blocks_idx(e) == e[1] * NumBlocks + e[2]

fetch_and_store(word, value, comparand) ==
  [before |-> word, after |-> value]

\* tbb::atomic<int>::compare_and_swap(value, comparand): the value the call
\* returns (the one before) and the value of the atomic after it
compare_and_swap(word, value, comparand) ==
  [before |-> word, after |-> IF word = comparand THEN value ELSE word]

\* the conversion of an int to bool
IntToBool(x) == x # 0

\* tryAquireNodeImpl
TryAquireNode(t, node) ==
  /\ Derived = "OptScheduler"
  /\ t \in DOMAIN aquired
  /\ LET cas == compare_and_swap(_node_lock[node], blocks_idx(t), 0)
         already_aquired == IntToBool(cas.before)
     IN /\ _node_lock' = [_node_lock EXCEPT ![node] = cas.after]
        /\ aquired' = IF ~already_aquired
                      THEN [aquired EXCEPT ![t] = @ \cup {node}]
                      ELSE aquired
        /\ attempt' = [call |-> "tryAquireNode", task |-> t, node |-> node,
                       result |-> ~already_aquired]
  /\ UNCHANGED <<contract_vars, ds_vars, scheduler_vars, block_weight_vars, quotient_vars, search_vars>>

\* releaseNodeImpl, called by a task for a vertex it holds
ReleaseNode(t, node) ==
  /\ Derived = "OptScheduler"
  /\ t \in DOMAIN aquired
  /\ node \in aquired[t]
  /\ _node_lock' = [_node_lock EXCEPT ![node] = 0]
  /\ aquired' = [aquired EXCEPT ![t] = @ \ {node}]
  /\ attempt' = [call |-> "releaseNode", task |-> t, node |-> node, result |-> TRUE]
  /\ UNCHANGED <<contract_vars, ds_vars, scheduler_vars, block_weight_vars, quotient_vars, search_vars>>

\* the scheduler when getInitialParallelEdges has returned every edge of the
\* quotient graph g, which has no more edges than there are threads
AllInFlight(g) ==
  /\ Derived = "OptScheduler"
  /\ _quotient_graph = g
  /\ _round_edges = <<>>
  /\ _active_blocks = [b \in Blocks |-> FALSE]
  /\ _locked_blocks = [b \in Blocks |-> FALSE]
  /\ _tasks_on_block =
       [b \in Blocks |-> Cardinality({e \in Range(g) : b \in BlocksOf(e)})]
  /\ _schedule_mutex = FALSE
  /\ main = [pc |-> "parallel_do", i |-> NumThreads]
  /\ initialEdges = g
  /\ feeder = Range(g)
  /\ calls = <<>>
  /\ history = [round_edges |-> g,
                active |-> [b \in Blocks |-> \E e \in Range(g) : b \in BlocksOf(e)],
                dispatched |-> [e \in BlockPairs |-> IF e \in Range(g) THEN 1 ELSE 0]]

NodeLockInit ==
  /\ \E g \in QuotientGraphs :
       /\ Len(g) \in 1..NumThreads
       /\ AllInFlight(g)
       /\ aquired = [t \in Range(g) |-> {}]
  \* _node_lock(hypergraph.initialNumNodes(), false)
  /\ _node_lock = [node \in LockNodes |-> 0]
  /\ attempt = <<>>
  /\ NoContract /\ NoDataStructures /\ NoBlockWeights /\ NoQuotientBuild /\ NoSearch

NodeLockNext ==
  \/ \E t \in BlockPairs, node \in LockNodes : TryAquireNode(t, node)
  \/ \E t \in BlockPairs, node \in LockNodes : ReleaseNode(t, node)

SpecNodeLock == NodeLockInit /\ [][NodeLockNext]_vars

Holders(node) == {t \in DOMAIN aquired : node \in aquired[t]}

\* C16: the id of a task is not 0; a vertex is held by at most one task, whose
\* id is its lock word, and is free when the word is 0; tryAquireNode can
\* always run, succeeds iff the word is 0 and then sets it to the id of the
\* caller; a failed call changes nothing; only releaseNode frees a vertex.
C16_NodeOwnership ==
  /\ [](\A e \in BlockPairs : blocks_idx(e) # 0)
  /\ [](Derived = "OptScheduler" /\ DOMAIN _node_lock # {} =>
          \A node \in LockNodes :
            /\ Cardinality(Holders(node)) <= 1
            /\ \A t \in Holders(node) : _node_lock[node] = blocks_idx(t)
            /\ Holders(node) = {} => _node_lock[node] = 0
            /\ \A t \in DOMAIN aquired : ENABLED TryAquireNode(t, node))
  /\ [][/\ attempt'.call = "tryAquireNode" =>
             LET t == attempt'.task
                 node == attempt'.node
             IN /\ attempt'.result <=> _node_lock[node] = 0
                /\ attempt'.result =>
                     /\ _node_lock' = [_node_lock EXCEPT ![node] = blocks_idx(t)]
                     /\ aquired' = [aquired EXCEPT ![t] = @ \cup {node}]
                /\ ~attempt'.result =>
                     /\ _node_lock' = _node_lock
                     /\ aquired' = aquired
        /\ \A node \in LockNodes :
             (_node_lock[node] # 0 /\ _node_lock'[node] = 0) =>
               (attempt'.call = "releaseNode" /\ attempt'.node = node)
       ]_node_lock_vars

\* a task failed to aquire a vertex another task holds, after both raced for it
C16_Witness ==
  /\ attempt # <<>>
  /\ attempt.call = "tryAquireNode"
  /\ ~attempt.result
  /\ Holders(attempt.node) # {}
  /\ attempt.task \notin Holders(attempt.node)
  /\ aquired[attempt.task] # {}

(***************************************************************************)
(* SchedulerBase: block weight arbitration.  The tasks of the pairs in     *)
(* flight aquire weight of their two blocks, read the weights and release  *)
(* what they aquired.  A task (b0, b1) works on the rows b0 and b1:        *)
(* side 1 is aquire_block_weight(b0, b1, a), side 2 is                     *)
(* aquire_block_weight(b1, b0, a); it releases the amount it aquired.      *)
(***************************************************************************)
NoTask == <<>>

Sides == {1, 2}

BlockOf(t, side) == t[side]
OtherBlockOf(t, side) == t[3 - side]

\* _hg.partWeight(b): above what the tasks on a block can aquire together
PartWeights == [b \in Blocks |-> NumThreads * MaxAmount + b]

RowSum(W, b) == SumOver(W[b], Blocks)

\* tbb::spin_rw_mutex::scoped_lock(m, true) returns when nobody holds m
write_lock_free(lock) == lock.writer = NoTask /\ lock.readers = {}

\* tbb::spin_rw_mutex::scoped_lock(m, false) returns when no writer holds m
read_lock_free(lock) == lock.writer = NoTask

Refiner(p) ==
  [pc |-> p, side |-> 1, amount |-> 0, reserved |-> <<0, 0>>, weight |-> <<>>]

\* init_block_weights, called before the tasks run
init_block_weights ==
  /\ \A t \in DOMAIN refiners : refiners[t].pc = "not_started"
  /\ DOMAIN refiners # {}
  /\ _block_weights' =
       [i \in Blocks |-> [j \in Blocks |-> IF j = i THEN partWeight[i] ELSE 0]]
  /\ refiners' = [t \in DOMAIN refiners |-> Refiner("refine")]
  /\ UNCHANGED <<partWeight, _rw_locks>>
  /\ UNCHANGED <<contract_vars, ds_vars, scheduler_vars, node_lock_vars, quotient_vars, search_vars>>

diagonal_unchanged(W, b, amount) == W

\* _block_weights[block][block] -= amount
diagonal_minus(W, b, amount) == [W EXCEPT ![b][b] = @ - amount]

\* _block_weights[block][block] += amount
diagonal_plus(W, b, amount) == [W EXCEPT ![b][b] = @ + amount]

\* aquire_block_weight: the lock and the first assignment
AquireLock(t, side, amount) ==
  /\ t \in DOMAIN refiners
  /\ refiners[t].pc = "refine"
  /\ refiners[t].reserved[side] = 0
  /\ LET b == BlockOf(t, side)
         o == OtherBlockOf(t, side)
     IN /\ write_lock_free(_rw_locks[b])
        /\ _rw_locks' = [_rw_locks EXCEPT ![b].writer = t]
        /\ _block_weights' = [_block_weights EXCEPT ![b][o] = amount]
  /\ refiners' = [refiners EXCEPT ![t].pc = "aquire_second",
                                  ![t].side = side, ![t].amount = amount]
  /\ UNCHANGED partWeight
  /\ UNCHANGED <<contract_vars, ds_vars, scheduler_vars, node_lock_vars, quotient_vars, search_vars>>

\* aquire_block_weight: the second assignment and the end of the scope; the
\* task keeps the amount it has to release
AquireUnlock(t) ==
  /\ t \in DOMAIN refiners
  /\ refiners[t].pc = "aquire_second"
  /\ LET b == BlockOf(t, refiners[t].side) IN
       /\ _block_weights' = diagonal_minus(_block_weights, b, refiners[t].amount)
       /\ _rw_locks' = [_rw_locks EXCEPT ![b].writer = NoTask]
  /\ refiners' = [refiners EXCEPT ![t].pc = "refine", ![t].side = 1, ![t].amount = 0,
                                  ![t].reserved[refiners[t].side] = refiners[t].amount]
  /\ UNCHANGED partWeight
  /\ UNCHANGED <<contract_vars, ds_vars, scheduler_vars, node_lock_vars, quotient_vars, search_vars>>

\* release_block_weight of the amount aquired: the lock and the first assignment
ReleaseLock(t, side) ==
  /\ t \in DOMAIN refiners
  /\ refiners[t].pc = "refine"
  /\ refiners[t].reserved[side] # 0
  /\ LET b == BlockOf(t, side)
         o == OtherBlockOf(t, side)
     IN /\ write_lock_free(_rw_locks[b])
        /\ _rw_locks' = [_rw_locks EXCEPT ![b].writer = t]
        /\ _block_weights' = [_block_weights EXCEPT ![b][o] = 0]
  /\ refiners' = [refiners EXCEPT ![t].pc = "release_second", ![t].side = side,
                                  ![t].amount = refiners[t].reserved[side]]
  /\ UNCHANGED partWeight
  /\ UNCHANGED <<contract_vars, ds_vars, scheduler_vars, node_lock_vars, quotient_vars, search_vars>>

\* release_block_weight: the second assignment and the end of the scope
ReleaseUnlock(t) ==
  /\ t \in DOMAIN refiners
  /\ refiners[t].pc = "release_second"
  /\ LET b == BlockOf(t, refiners[t].side) IN
       /\ _block_weights' = diagonal_plus(_block_weights, b, refiners[t].amount)
       /\ _rw_locks' = [_rw_locks EXCEPT ![b].writer = NoTask]
  /\ refiners' = [refiners EXCEPT ![t].pc = "refine", ![t].side = 1, ![t].amount = 0,
                                  ![t].reserved[refiners[t].side] = 0]
  /\ UNCHANGED partWeight
  /\ UNCHANGED <<contract_vars, ds_vars, scheduler_vars, node_lock_vars, quotient_vars, search_vars>>

whole_row_sum(block, other_block) == RowSum(_block_weights, block)

\* get_not_aquired_weight: the loop
not_aquired_sum(block, other_block) ==
  SumOver(_block_weights[block], Blocks \ {other_block})

\* get_not_aquired_weight: the lock and the loop
GetNotAquiredLock(t, side) ==
  /\ t \in DOMAIN refiners
  /\ refiners[t].pc = "refine"
  /\ LET b == BlockOf(t, side)
         o == OtherBlockOf(t, side)
     IN /\ read_lock_free(_rw_locks[b])
        /\ _rw_locks' = [_rw_locks EXCEPT ![b].readers = @ \cup {t}]
        /\ refiners' = [refiners EXCEPT ![t].pc = "not_aquired_return",
                                        ![t].side = side,
                                        ![t].weight = not_aquired_sum(b, o)]
  /\ UNCHANGED <<partWeight, _block_weights>>
  /\ UNCHANGED <<contract_vars, ds_vars, scheduler_vars, node_lock_vars, quotient_vars, search_vars>>

\* get_not_aquired_weight: the return; the caller takes the weight
GetNotAquiredReturn(t) ==
  /\ t \in DOMAIN refiners
  /\ refiners[t].pc = "not_aquired_return"
  /\ _rw_locks' = [_rw_locks EXCEPT ![BlockOf(t, refiners[t].side)].readers = @ \ {t}]
  /\ refiners' = [refiners EXCEPT ![t].pc = "refine", ![t].side = 1, ![t].weight = <<>>]
  /\ UNCHANGED <<partWeight, _block_weights>>
  /\ UNCHANGED <<contract_vars, ds_vars, scheduler_vars, node_lock_vars, quotient_vars, search_vars>>

\* get_aquired_part_weight(b0, b1): the read of _block_weights[b0][b1]
GetAquiredFirst(t) ==
  /\ t \in DOMAIN refiners
  /\ refiners[t].pc = "refine"
  /\ refiners' = [refiners EXCEPT ![t].pc = "aquired_second",
                                  ![t].weight = <<_block_weights[t[1]][t[2]]>>]
  /\ UNCHANGED <<partWeight, _block_weights, _rw_locks>>
  /\ UNCHANGED <<contract_vars, ds_vars, scheduler_vars, node_lock_vars, quotient_vars, search_vars>>

\* get_aquired_part_weight(b0, b1): the read of _block_weights[b1][b0]
GetAquiredSecond(t) ==
  /\ t \in DOMAIN refiners
  /\ refiners[t].pc = "aquired_second"
  /\ refiners' = [refiners EXCEPT ![t].pc = "aquired_return",
                                  ![t].weight = Append(@, _block_weights[t[2]][t[1]])]
  /\ UNCHANGED <<partWeight, _block_weights, _rw_locks>>
  /\ UNCHANGED <<contract_vars, ds_vars, scheduler_vars, node_lock_vars, quotient_vars, search_vars>>

\* get_aquired_part_weight: the return; the caller takes the pair
GetAquiredReturn(t) ==
  /\ t \in DOMAIN refiners
  /\ refiners[t].pc = "aquired_return"
  /\ refiners' = [refiners EXCEPT ![t].pc = "refine", ![t].weight = <<>>]
  /\ UNCHANGED <<partWeight, _block_weights, _rw_locks>>
  /\ UNCHANGED <<contract_vars, ds_vars, scheduler_vars, node_lock_vars, quotient_vars, search_vars>>

BlockWeightInit ==
  /\ \E g \in QuotientGraphs :
       /\ Len(g) \in 1..NumThreads
       /\ AllInFlight(g)
       /\ refiners = [t \in Range(g) |-> Refiner("not_started")]
  /\ partWeight = PartWeights
  \* _block_weights(k, std::vector<size_t>(k, 0)), _rw_locks(k)
  /\ _block_weights = [i \in Blocks |-> [j \in Blocks |-> 0]]
  /\ _rw_locks = [b \in Blocks |-> [writer |-> NoTask, readers |-> {}]]
  /\ NoContract /\ NoDataStructures /\ NoNodeLocks /\ NoQuotientBuild /\ NoSearch

BlockWeightNext ==
  \/ init_block_weights
  \/ \E t \in BlockPairs, side \in Sides, amount \in 1..MaxAmount :
       AquireLock(t, side, amount)
  \/ \E t \in BlockPairs : AquireUnlock(t)
  \/ \E t \in BlockPairs, side \in Sides : ReleaseLock(t, side)
  \/ \E t \in BlockPairs : ReleaseUnlock(t)
  \/ \E t \in BlockPairs, side \in Sides : GetNotAquiredLock(t, side)
  \/ \E t \in BlockPairs : GetNotAquiredReturn(t)
  \/ \E t \in BlockPairs : GetAquiredFirst(t)
  \/ \E t \in BlockPairs : GetAquiredSecond(t)
  \/ \E t \in BlockPairs : GetAquiredReturn(t)

SpecBlockWeights == BlockWeightInit /\ [][BlockWeightNext]_vars

(***************************************************************************)
(* Properties of the block weight arbitration.                             *)
(***************************************************************************)
Initialised == \E t \in DOMAIN refiners : refiners[t].pc # "not_started"

\* a writer is between the two assignments of a transfer in row b
MidTransfer(b) == _rw_locks[b].writer # NoTask

\* the amount the task of the pair {b, o} has aquired from b and not released
Reserved(b, o) ==
  LET t == IF b < o THEN <<b, o>> ELSE <<o, b>>
      side == IF b < o THEN 1 ELSE 2
  IN IF t \in DOMAIN refiners THEN refiners[t].reserved[side] ELSE 0

InitialBlockWeights ==
  [i \in Blocks |-> [j \in Blocks |-> IF j = i THEN partWeight[i] ELSE 0]]

\* C17: after init_block_weights the diagonal holds the part weights and the
\* rest is 0; a finished aquire has moved its amount from W[b][b] to W[b][o]
\* and a finished release has moved it back, so that outside a transfer every
\* row sums to its part weight, no other row or cell is touched, and with all
\* amounts released the matrix is the initial one.
C17_ReversibleTransfer ==
  Initialised =>
    /\ \A b \in Blocks :
         /\ ~MidTransfer(b) =>
              /\ \A o \in Blocks \ {b} : _block_weights[b][o] = Reserved(b, o)
              /\ _block_weights[b][b] =
                   partWeight[b] - SumOver([o \in Blocks |-> Reserved(b, o)], Blocks \ {b})
              /\ RowSum(_block_weights, b) = partWeight[b]
         /\ MidTransfer(b) =>
              LET w == _rw_locks[b].writer
                  o == OtherBlockOf(w, refiners[w].side)
              IN \A c \in Blocks \ {b, o} : _block_weights[b][c] = Reserved(b, c)
    /\ (\A t \in DOMAIN refiners : refiners[t].reserved = <<0, 0>>)
         /\ (\A b \in Blocks : ~MidTransfer(b))
         => _block_weights = InitialBlockWeights

\* two pairs hold different amounts of the same block while one of them
\* gives back what it aquired of its other block
C17_Witness ==
  /\ Initialised
  /\ \E b \in Blocks, o1, o2 \in Blocks :
       /\ o1 # o2
       /\ _block_weights[b][o1] = 1
       /\ _block_weights[b][o2] = MaxAmount
       /\ ~MidTransfer(b)
       /\ MidTransfer(o1)
       /\ refiners[_rw_locks[o1].writer].pc = "release_second"

\* C18 as amended: get_not_aquired_weight(b, b') returns the weight of row b
\* without W[b][b'], that is W[b][b] and the weight other pairs reserved of b,
\* and get_aquired_part_weight(b, b') returns the pair (W[b][b'], W[b'][b]).
C18_NotAquiredWeightIsRowWithoutOwn ==
  \A t \in DOMAIN refiners :
    /\ refiners[t].pc = "not_aquired_return" =>
         LET b == BlockOf(t, refiners[t].side)
             o == OtherBlockOf(t, refiners[t].side)
         IN refiners[t].weight =
              _block_weights[b][b] + SumOver(_block_weights[b], Blocks \ {b, o})
    /\ refiners[t].pc = "aquired_return" =>
         refiners[t].weight = <<_block_weights[t[1]][t[2]], _block_weights[t[2]][t[1]]>>

\* C18 as stated: the weight the task of (b, b') reads is W[b][b] + W[b][b'].
C18_AvailableIsFreePlusOwn ==
  \A t \in DOMAIN refiners :
    refiners[t].pc = "not_aquired_return" =>
      LET b == BlockOf(t, refiners[t].side)
          o == OtherBlockOf(t, refiners[t].side)
      IN refiners[t].weight = _block_weights[b][b] + _block_weights[b][o]

\* a task reads the weight of a block of which it and another pair hold
\* different amounts
C18_Witness ==
  \E t \in DOMAIN refiners :
    /\ refiners[t].pc = "not_aquired_return"
    /\ LET b == BlockOf(t, refiners[t].side)
           o == OtherBlockOf(t, refiners[t].side)
       IN /\ _block_weights[b][o] = 1
          /\ \E c \in Blocks \ {b, o} : _block_weights[b][c] = MaxAmount
          /\ refiners[t].weight = partWeight[b] - 1

\* the next step of task t can read row b
ReadsRow(t, b) ==
  \/ t[1] = b /\ ENABLED GetAquiredFirst(t)
  \/ t[2] = b /\ ENABLED GetAquiredSecond(t)
  \/ \E side \in Sides : BlockOf(t, side) = b /\ ENABLED GetNotAquiredLock(t, side)

\* the next step of task t can start a write of row b
WritesRow(t, b) ==
  \E side \in Sides :
    /\ BlockOf(t, side) = b
    /\ \/ ENABLED ReleaseLock(t, side)
       \/ \E amount \in 1..MaxAmount : ENABLED AquireLock(t, side, amount)

\* C19: every access to row b is made under the lock of row b: while a writer
\* is in the middle of a transfer in row b, no other task can read or write
\* row b.
C19_RowAccessUnderLock ==
  \A b \in Blocks :
    MidTransfer(b) =>
      \A t \in DOMAIN refiners \ {_rw_locks[b].writer} :
        ~ReadsRow(t, b) /\ ~WritesRow(t, b)

\* C19 for the calls that take the lock: while a writer is in the middle of a
\* transfer in row b, no other task can start aquire_block_weight,
\* release_block_weight or get_not_aquired_weight on row b.
C19_LockingCallsExcluded ==
  \A b \in Blocks :
    MidTransfer(b) =>
      \A t \in DOMAIN refiners \ {_rw_locks[b].writer} :
        /\ ~WritesRow(t, b)
        /\ \A side \in Sides :
             BlockOf(t, side) = b => ~ENABLED GetNotAquiredLock(t, side)

(***************************************************************************)
(* Part 2e: SchedulerBase::buildQuotientGraph                              *)
(* (quotient_graph_block_scheduler.h, lines 74-92).                        *)
(*                                                                         *)
(* One thread builds the quotient graph of a freshly constructed           *)
(* scheduler: _quotient_graph and every _block_pair_cut_he[b0][b1] are     *)
(* empty (lines 56, 62-64).  The partitioned hypergraph is a list of pin   *)
(* sets and a block for every vertex; connectivity(he) and                 *)
(* connectivitySet(he) are those of the specification: the blocks in which *)
(* he has a pin.  One step is one iteration of the loop over the           *)
(* hyperedges (lines 76-87) or one iteration of the loop over edge_list    *)
(* (lines 89-91).  A visit adds every pair of the connectivity set that    *)
(* passes the test at line 80 once, whatever the order in which the        *)
(* connectivity set is iterated.                                           *)
(***************************************************************************)
PartNodes == 0..(NumNodes - 1)

Nets == 0..(NumEdges - 1)

\* the partitioned hypergraphs: every net has a pin, every vertex a block
PartitionedHypergraphs ==
  [pins : [Nets -> (SUBSET PartNodes) \ {{}}], part : [PartNodes -> Blocks]]

\* _hg.connectivitySet(he): the blocks with a pin of he
connectivitySet(he) == {phg.part[v] : v \in phg.pins[he]}

\* _hg.connectivity(he)
connectivity(he) == Cardinality(connectivitySet(he))

block_order_reversed(block0, block1) == block0 > block1

\* line 80
block_order(block0, block1) == block0 < block1

\* the pairs for which lines 81-82 run in the visit of he
PairsOf(he) ==
  IF connectivity(he) > 1
  THEN {e \in connectivitySet(he) \X connectivitySet(he) : block_order(e[1], e[2])}
  ELSE {}

\* lines 76-87, one hyperedge: _hg.edges() is in ascending id order
BuildVisitEdge ==
  /\ main.pc = "buildQuotientGraph"
  /\ unvisited # {}
  /\ LET he == CHOOSE h \in unvisited : \A g \in unvisited : h <= g
     IN /\ edge_list' = edge_list \cup PairsOf(he)
        /\ _block_pair_cut_he' =
             [b0 \in Blocks |-> [b1 \in Blocks |->
                IF <<b0, b1>> \in PairsOf(he)
                THEN Append(_block_pair_cut_he[b0][b1], he)
                ELSE _block_pair_cut_he[b0][b1]]]
        /\ unvisited' = unvisited \ {he}
  /\ UNCHANGED <<phg, Derived, _quotient_graph, _round_edges, _active_blocks,
                 _locked_blocks, _tasks_on_block, _schedule_mutex, main,
                 initialEdges, feeder, calls, history>>
  /\ UNCHANGED <<contract_vars, ds_vars, node_lock_vars, block_weight_vars, search_vars>>

\* lines 89-91, one element of edge_list
BuildPushBack ==
  /\ main.pc = "buildQuotientGraph"
  /\ unvisited = {}
  /\ Len(_quotient_graph) < Cardinality(edge_list)
  /\ _quotient_graph' =
       Append(_quotient_graph, SortedEdges(edge_list)[Len(_quotient_graph) + 1])
  /\ UNCHANGED <<Derived, _round_edges, _active_blocks, _locked_blocks,
                 _tasks_on_block, _schedule_mutex, main, initialEdges, feeder,
                 calls, history>>
  /\ UNCHANGED <<contract_vars, ds_vars, node_lock_vars, block_weight_vars, quotient_vars, search_vars>>

\* line 92
BuildReturn ==
  /\ main.pc = "buildQuotientGraph"
  /\ unvisited = {}
  /\ Len(_quotient_graph) = Cardinality(edge_list)
  /\ main' = [main EXCEPT !.pc = "built"]
  /\ UNCHANGED <<Derived, _quotient_graph, _round_edges, _active_blocks,
                 _locked_blocks, _tasks_on_block, _schedule_mutex,
                 initialEdges, feeder, calls, history>>
  /\ UNCHANGED <<contract_vars, ds_vars, node_lock_vars, block_weight_vars, quotient_vars, search_vars>>

\* the constructor (lines 54-67) and the entry of buildQuotientGraph (line 75)
QuotientInit ==
  /\ phg \in PartitionedHypergraphs
  /\ _block_pair_cut_he = [b0 \in Blocks |-> [b1 \in Blocks |-> <<>>]]
  /\ edge_list = {}
  /\ unvisited = Nets
  /\ Derived = "none"
  /\ _quotient_graph = <<>>
  /\ _round_edges = <<>>
  /\ _active_blocks = <<>>
  /\ _locked_blocks = <<>>
  /\ _tasks_on_block = <<>>
  /\ _schedule_mutex = FALSE
  /\ main = [pc |-> "buildQuotientGraph", i |-> 0]
  /\ initialEdges = <<>>
  /\ feeder = {}
  /\ calls = <<>>
  /\ history = <<>>
  /\ NoContract /\ NoDataStructures /\ NoNodeLocks /\ NoBlockWeights /\ NoSearch

QuotientNext == BuildVisitEdge \/ BuildPushBack \/ BuildReturn

SpecQuotient == QuotientInit /\ [][QuotientNext]_vars

\* how often x is in the vector s
Occurrences(s, x) == Cardinality({j \in 1..Len(s) : s[j] = x})

\* he has a pin in block b
HasPinIn(he, b) == \E v \in phg.pins[he] : phg.part[v] = b

Built == main.pc = "built"

(***************************************************************************)
(* C20: when buildQuotientGraph has returned on a freshly constructed      *)
(* scheduler, the quotient graph holds block pairs (b0, b1) with b0 < b1   *)
(* only, the pair (b0, b1) is in it once if some hyperedge has pins in     *)
(* both blocks and is not in it otherwise, and _block_pair_cut_he[b0][b1]  *)
(* holds once every hyperedge of connectivity above 1 whose connectivity   *)
(* set contains b0 and b1, and no other hyperedge.                         *)
(***************************************************************************)
C20_QuotientGraphBuilt ==
  Built =>
    /\ \A j \in 1..Len(_quotient_graph) : _quotient_graph[j] \in BlockPairs
    /\ \A e \in BlockPairs :
         /\ Occurrences(_quotient_graph, e) =
              IF \E he \in Nets : HasPinIn(he, e[1]) /\ HasPinIn(he, e[2])
              THEN 1 ELSE 0
         /\ \A he \in Nets :
              Occurrences(_block_pair_cut_he[e[1]][e[2]], he) =
                IF /\ connectivity(he) > 1
                   /\ {e[1], e[2]} \subseteq connectivitySet(he)
                THEN 1 ELSE 0

\* the build has returned for a hypergraph in which two hyperedges span the
\* same pair of blocks, one of them spanning a third block as well
C20_Witness ==
  /\ Built
  /\ Len(_quotient_graph) >= 3
  /\ \E e \in BlockPairs : Len(_block_pair_cut_he[e[1]][e[2]]) = 2
  /\ \E he \in Nets : connectivity(he) = 3

(***************************************************************************)
(* Part 3a: the cut hyperedge lists under moves                            *)
(* (quotient_graph_block_scheduler.h, SchedulerBase::changeNodePart at     *)
(* lines 169-191, blockPairCutHyperedges at lines 126-167 and              *)
(* updateBlockPairCutHyperedges at lines 259-275).                         *)
(*                                                                         *)
(* The threads of the block pair tasks call changeNodePart and             *)
(* blockPairCutHyperedges on the scheduler that buildQuotientGraph has     *)
(* filled.  _hg.changeNodePart is one step (the overlay moves the vertex   *)
(* atomically; block weights play no role here and the move succeeds);     *)
(* one step is then one iteration of the loop over the incident            *)
(* hyperedges (lines 176-189), and one iteration of the loop of            *)
(* updateBlockPairCutHyperedges (lines 262-274).  A block pair is in       *)
(* flight once, so no two threads update the list of the same pair.        *)
(***************************************************************************)
Threads == 1..NumThreads

\* _hg.pinCountInPart(he, b)
pinCountInPart(he, b) == Cardinality({v \in phg.pins[he] : phg.part[v] = b})

\* _hg.incidentEdges(hn)
incidentEdges(hn) == {he \in Nets : hn \in phg.pins[he]}

\* the hyperedges with a pin in both blocks of h, in ascending order
RECURSIVE CutHyperedges(_, _, _, _)
CutHyperedges(h, b0, b1, he) ==
  IF he >= NumEdges THEN <<>>
  ELSE (IF /\ \E v \in h.pins[he] : h.part[v] = b0
           /\ \E v \in h.pins[he] : h.part[v] = b1
        THEN <<he>> ELSE <<>>) \o CutHyperedges(h, b0, b1, he + 1)

\* _block_pair_cut_he when buildQuotientGraph has returned
BuiltCutHyperedges(h) ==
  [b0 \in Blocks |-> [b1 \in Blocks |->
     IF b0 < b1 THEN CutHyperedges(h, b0, b1, 0) ELSE <<>>]]

Idle == [pc |-> "idle"]

\* a call that runs while the thread t updates a list is a move running
\* concurrently with that update
Disturb(ms, t) ==
  [u \in Threads |->
     IF u # t /\ ms[u].pc = "update" THEN [ms[u] EXCEPT !.disturbed = TRUE]
     ELSE ms[u]]

\* lines 170-174: from == to returns at once; otherwise the overlay moves hn
ChangeNodePart(t, hn, to) ==
  /\ movers[t].pc = "idle"
  /\ num_moves < MaxMoves
  /\ num_moves' = num_moves + 1
  /\ LET from == phg.part[hn]
     IN IF from # to
        THEN /\ phg' = [phg EXCEPT !.part[hn] = to]
             /\ movers' = Disturb([movers EXCEPT ![t] =
                            IF incidentEdges(hn) = {} THEN Idle
                            ELSE [pc |-> "incidentEdges", hn |-> hn, to |-> to,
                                  rest |-> incidentEdges(hn)]], t)
        ELSE UNCHANGED <<phg, movers>>
  /\ UNCHANGED <<_block_pair_cut_he, edge_list, unvisited>>
  /\ UNCHANGED <<contract_vars, ds_vars, scheduler_vars, node_lock_vars, block_weight_vars, fm_vars>>

\* lines 181-187: he is appended to the list of to and every other block of
\* its connectivity set
PushNewCut(lists, he, to) ==
  [b0 \in Blocks |-> [b1 \in Blocks |->
     IF /\ b0 < b1
        /\ \/ (b0 = to /\ b1 \in connectivitySet(he))
           \/ (b1 = to /\ b0 \in connectivitySet(he))
     THEN Append(lists[b0][b1], he)
     ELSE lists[b0][b1]]]

\* lines 176-189, one incident hyperedge; the call returns after the last
ChangeNodePartVisit(t) ==
  /\ movers[t].pc = "incidentEdges"
  /\ LET m == movers[t]
         he == CHOOSE h \in m.rest : \A g \in m.rest : h <= g
     IN /\ _block_pair_cut_he' =
             IF pinCountInPart(he, m.to) = 1
             THEN PushNewCut(_block_pair_cut_he, he, m.to)
             ELSE _block_pair_cut_he
        /\ movers' = Disturb([movers EXCEPT ![t] =
                       IF m.rest = {he} THEN Idle
                       ELSE [m EXCEPT !.rest = m.rest \ {he}]], t)
  /\ UNCHANGED <<phg, edge_list, unvisited, num_moves>>
  /\ UNCHANGED <<contract_vars, ds_vars, scheduler_vars, node_lock_vars, block_weight_vars, fm_vars>>

\* lines 127-128 and 260-261: blockPairCutHyperedges(block0, block1) enters
\* updateBlockPairCutHyperedges
BlockPairCutHyperedges(t, block0, block1) ==
  /\ movers[t].pc = "idle"
  /\ block0 < block1
  /\ <<block0, block1>> \in Range(_quotient_graph)
  /\ \A u \in Threads :
       movers[u].pc = "update"
         => <<movers[u].block0, movers[u].block1>> # <<block0, block1>>
  /\ movers' = [movers EXCEPT ![t] =
       [pc |-> "update", block0 |-> block0, block1 |-> block1, i |-> 0,
        N |-> Len(_block_pair_cut_he[block0][block1]), visited |-> {},
        before |-> _block_pair_cut_he[block0][block1],
        disturbed |-> \E u \in Threads : movers[u].pc = "incidentEdges"]]
  /\ UNCHANGED <<phg, _block_pair_cut_he, edge_list, unvisited, num_moves>>
  /\ UNCHANGED <<contract_vars, ds_vars, scheduler_vars, node_lock_vars, block_weight_vars, fm_vars>>

\* lines 267-269: std::swap of positions i and N - 1, then pop_back
SwapAndPopBack(list, i, N) ==
  LET swapped == [j \in 1..Len(list) |->
                    IF j = i + 1 THEN list[N]
                    ELSE IF j = N THEN list[i + 1] ELSE list[j]]
  IN SubSeq(swapped, 1, Len(list) - 1)

update_after_erase_no_decrement(i) == i + 1

\* lines 270 and 262: --i, then ++i of the loop
update_after_erase(i) == (i - 1) + 1

\* lines 262-274, one iteration
UpdateStep(t) ==
  /\ movers[t].pc = "update"
  /\ movers[t].i < movers[t].N
  /\ LET m == movers[t]
         list == _block_pair_cut_he[m.block0][m.block1]
         he == list[m.i + 1]
         erase == \/ pinCountInPart(he, m.block0) = 0
                  \/ pinCountInPart(he, m.block1) = 0
                  \/ he \in m.visited
     IN /\ _block_pair_cut_he' =
             IF erase
             THEN [_block_pair_cut_he EXCEPT ![m.block0][m.block1] =
                     SwapAndPopBack(list, m.i, m.N)]
             ELSE _block_pair_cut_he
        /\ movers' = [movers EXCEPT ![t] =
             [m EXCEPT !.i = IF erase THEN update_after_erase(m.i) ELSE m.i + 1,
                       !.N = IF erase THEN m.N - 1 ELSE m.N,
                       !.visited = m.visited \cup {he}]]
  /\ UNCHANGED <<phg, edge_list, unvisited, num_moves>>
  /\ UNCHANGED <<contract_vars, ds_vars, scheduler_vars, node_lock_vars, block_weight_vars, fm_vars>>

\* the loop has ended: the list blockPairCutHyperedges returns (lines 165-166)
UpdateDone(t) == movers[t].pc = "update" /\ movers[t].i >= movers[t].N

UpdateReturn(t) ==
  /\ UpdateDone(t)
  /\ movers' = [movers EXCEPT ![t] = Idle]
  /\ UNCHANGED <<phg, _block_pair_cut_he, edge_list, unvisited, num_moves>>
  /\ UNCHANGED <<contract_vars, ds_vars, scheduler_vars, node_lock_vars, block_weight_vars, fm_vars>>

\* the hypergraphs whose hyperedges can be cut: no hyperedge has a single pin
CutInputs == {h \in PartitionedHypergraphs : \A he \in Nets : Cardinality(h.pins[he]) >= 2}

\* buildQuotientGraph has returned; no thread is in a call
CutInit ==
  /\ phg \in CutInputs
  /\ _block_pair_cut_he = BuiltCutHyperedges(phg)
  /\ _quotient_graph =
       SortedEdges({e \in BlockPairs : BuiltCutHyperedges(phg)[e[1]][e[2]] # <<>>})
  /\ edge_list = {}
  /\ unvisited = {}
  /\ movers = [t \in Threads |-> Idle]
  /\ num_moves = 0
  /\ Derived = "none"
  /\ _round_edges = <<>>
  /\ _active_blocks = <<>>
  /\ _locked_blocks = <<>>
  /\ _tasks_on_block = <<>>
  /\ _schedule_mutex = FALSE
  /\ main = [pc |-> "built", i |-> 0]
  /\ initialEdges = <<>>
  /\ feeder = {}
  /\ calls = <<>>
  /\ history = <<>>
  /\ NoContract /\ NoDataStructures /\ NoNodeLocks /\ NoBlockWeights /\ NoFM

CutNext ==
  \/ \E t \in Threads, hn \in PartNodes, to \in Blocks : ChangeNodePart(t, hn, to)
  \/ \E t \in Threads : ChangeNodePartVisit(t)
  \/ \E t \in Threads, block0 \in Blocks, block1 \in Blocks :
       BlockPairCutHyperedges(t, block0, block1)
  \/ \E t \in Threads : UpdateStep(t)
  \/ \E t \in Threads : UpdateReturn(t)

\* the threads call changeNodePart only, concurrently
CutMoveNext ==
  \/ \E t \in Threads, hn \in PartNodes, to \in Blocks : ChangeNodePart(t, hn, to)
  \/ \E t \in Threads : ChangeNodePartVisit(t)

SpecCutEdges == CutInit /\ [][CutMoveNext]_vars

\* one thread makes the calls, one after the other
CutSequentialNext ==
  \/ \E hn \in PartNodes, to \in Blocks : ChangeNodePart(1, hn, to)
  \/ ChangeNodePartVisit(1)
  \/ \E block0 \in Blocks, block1 \in Blocks : BlockPairCutHyperedges(1, block0, block1)
  \/ UpdateStep(1)
  \/ UpdateReturn(1)

SpecCutSequential == CutInit /\ [][CutSequentialNext]_vars

\* he has a pin in both blocks of the pair e
IsCut(he, e) == pinCountInPart(he, e[1]) > 0 /\ pinCountInPart(he, e[2]) > 0

HasDuplicate(list) == \E j, k \in DOMAIN list : j # k /\ list[j] = list[k]

(***************************************************************************)
(* C21: when the loop of updateBlockPairCutHyperedges(b0, b1) has ended    *)
(* and no changeNodePart call ran during it, the list of the pair holds no *)
(* hyperedge twice, holds only hyperedges with a pin in b0 and a pin in    *)
(* b1, and holds every hyperedge that was in it before the call and has a  *)
(* pin in both blocks.                                                     *)
(***************************************************************************)
C21_UpdateRemovesStaleAndDuplicates ==
  \A t \in Threads :
    (UpdateDone(t) /\ ~movers[t].disturbed) =>
      LET m == movers[t]
          e == <<m.block0, m.block1>>
          list == _block_pair_cut_he[m.block0][m.block1]
      IN /\ ~HasDuplicate(list)
         /\ \A j \in DOMAIN list : IsCut(list[j], e)
         /\ \A he \in Range(m.before) : IsCut(he, e) => he \in Range(list)

\* an undisturbed update has ended that found a hyperedge twice and a
\* hyperedge without a pin in one of the blocks, and kept a hyperedge
C21_Witness ==
  \E t \in Threads :
    /\ UpdateDone(t) /\ ~movers[t].disturbed
    /\ HasDuplicate(movers[t].before)
    /\ \E he \in Range(movers[t].before) :
         ~IsCut(he, <<movers[t].block0, movers[t].block1>>)
    /\ _block_pair_cut_he[movers[t].block0][movers[t].block1] # <<>>

AllIdle == \A t \in Threads : movers[t].pc = "idle"

(***************************************************************************)
(* C22: when no thread is inside a call, every hyperedge with a pin in b0  *)
(* and a pin in b1, b0 < b1, is in _block_pair_cut_he[b0][b1].             *)
(***************************************************************************)
C22_CutListsComplete ==
  AllIdle =>
    \A e \in BlockPairs, he \in Nets :
      IsCut(he, e) => he \in Range(_block_pair_cut_he[e[1]][e[2]])

\* C22, its last part: a changeNodePart call with from == to, which leaves
\* the partition as it is, returns at once and changes no list
C22_SameBlockChangesNothing ==
  [][(num_moves' # num_moves /\ phg' = phg)
       => UNCHANGED <<movers, _block_pair_cut_he>>]_vars


(***************************************************************************)
(* Part 3b: the rounds of a scheduler                                      *)
(* (quotient_graph_block_scheduler.h, constructor at line 59,              *)
(* getInitialParallelEdges at lines 94-102, setActiveBlock at lines        *)
(* 193-195, the resets at lines 326 and 390).                              *)
(*                                                                         *)
(* A scheduler of either class runs round after round from its            *)
(* constructed state.  The tasks of the pairs in flight call               *)
(* setActiveBlock for the blocks of their pair; when parallel_do has       *)
(* returned the caller starts the next round (the loop over the rounds is  *)
(* in the caller).                                                         *)
(***************************************************************************)
Schedulers == {"MatchingScheduler", "OptScheduler"}

NewRound(first) ==
  [round_edges |-> <<>>, active |-> <<>>,
   dispatched |-> [e \in BlockPairs |-> 0], first |-> first]

\* the constructor: every block is active (line 59)
RoundsInit ==
  /\ Derived \in Schedulers
  /\ _quotient_graph \in QuotientGraphs
  /\ _round_edges = <<>>
  /\ _active_blocks = [b \in Blocks |-> TRUE]
  /\ _locked_blocks = [b \in Blocks |-> FALSE]
  /\ _tasks_on_block =
       IF Derived = "OptScheduler" THEN [b \in Blocks |-> 0] ELSE <<>>
  /\ _schedule_mutex = FALSE
  /\ main = [pc |-> "getInitialParallelEdges", i |-> 0]
  /\ initialEdges = <<>>
  /\ feeder = {}
  /\ calls = <<>>
  /\ history = NewRound(TRUE)
  /\ NoContract /\ NoDataStructures /\ NoNodeLocks /\ NoBlockWeights /\ NoQuotientBuild /\ NoSearch

\* setActiveBlock(blockId, active), called by the task of the pair e
SetActiveBlock(e, blockId, active) ==
  /\ main.pc = "parallel_do"
  /\ e \in feeder \ DOMAIN calls
  /\ blockId \in BlocksOf(e)
  /\ _active_blocks' = [_active_blocks EXCEPT ![blockId] = active]
  /\ UNCHANGED <<Derived, _quotient_graph, _round_edges, _locked_blocks,
                 _tasks_on_block, _schedule_mutex, main, initialEdges, feeder,
                 calls, history>>
  /\ UNCHANGED not_scheduler_vars

\* getNumberOfActiveBlocks (lines 197-205)
getNumberOfActiveBlocks == Cardinality({b \in Blocks : _active_blocks[b]})

\* parallel_do has returned and the caller calls getInitialParallelEdges again
NextRound ==
  /\ main.pc = "parallel_do"
  /\ feeder = {}
  /\ main' = [pc |-> "getInitialParallelEdges", i |-> 0]
  /\ initialEdges' = <<>>
  /\ history' = NewRound(FALSE)
  /\ UNCHANGED <<Derived, _quotient_graph, _round_edges, _active_blocks,
                 _locked_blocks, _tasks_on_block, _schedule_mutex, feeder, calls>>
  /\ UNCHANGED not_scheduler_vars

RoundsNext ==
  \/ MatchingNext
  \/ OptNext
  \/ \E e \in BlockPairs, blockId \in Blocks, active \in BOOLEAN :
       SetActiveBlock(e, blockId, active)
  \/ NextRound

SpecRounds == RoundsInit /\ [][RoundsNext]_vars

NoneActive == getNumberOfActiveBlocks = 0

Searches == 0..(MaxSearches - 1)

Gains == 0..MaxGain

Min2(a, b) == IF a < b THEN a ELSE b

\* the order of the priority queue: the least (gain, search) pair first
Before(p, q) == p[1] < q[1] \/ (p[1] = q[1] /\ p[2] <= q[2])

top(queue) == CHOOSE p \in queue : \A q \in queue : Before(p, q)

\* at most one entry per search
Queues(numSearches) ==
  {q \in SUBSET (Gains \X (0..(numSearches - 1))) :
     \A p1, p2 \in q : p1[2] = p2[2] => p1 = p2}

\* lines 495-505 and 530-532 have run: the queue is filled and the workers start
LocalSearchInit ==
  /\ \E numSearches \in 1..MaxSearches :
       /\ local_searches \in Queues(numSearches)
       /\ workers = [w \in 1..Min2(numSearches, NumThreads) |->
                       [pc |-> "while", search |-> 0]]
       /\ resumes \in [0..(numSearches - 1) -> 0..MaxResumes]
  /\ finishedTasks = 0
  /\ finishedTasksLimit \in 1..NumThreads
  /\ m_ = 0
  /\ tg_returned = FALSE
  /\ NoContract /\ NoDataStructures /\ NoScheduler /\ NoNodeLocks /\ NoBlockWeights
  /\ NoQuotientBuild /\ NoCutEdges /\ NoTracker /\ NoPartData /\ NoFlow

not_ls_vars ==
  <<contract_vars, ds_vars, scheduler_vars, node_lock_vars, block_weight_vars,
    quotient_vars, cut_vars, tracker_vars, part_vars, flow_vars>>

At(w, at) == w \in DOMAIN workers /\ workers[w].pc = at

Goto(w, at) == workers' = [workers EXCEPT ![w].pc = at]

\* line 508: the condition of the loop, read outside the mutex
While(w) ==
  /\ At(w, "while")
  /\ IF local_searches # {} /\ finishedTasks < finishedTasksLimit
       THEN Goto(w, "lock")
       ELSE Goto(w, "fetch_add")
  /\ UNCHANGED <<local_searches, finishedTasks, finishedTasksLimit, m_, resumes, tg_returned>>
  /\ UNCHANGED not_ls_vars

\* line 509: m.lock()
Lock(w) ==
  /\ At(w, "lock")
  /\ m_ = 0
  /\ m_' = w
  /\ Goto(w, "top")
  /\ UNCHANGED <<local_searches, finishedTasks, finishedTasksLimit, resumes, tg_returned>>
  /\ UNCHANGED not_ls_vars

\* lines 510-513: top(), pop(), m.unlock()
TopPop(w) ==
  /\ At(w, "top")
  /\ local_searches # {}
  /\ workers' = [workers EXCEPT ![w] =
       [pc |-> "resumeLocalSearch", search |-> top(local_searches)[2]]]
  /\ local_searches' = local_searches \ {top(local_searches)}
  /\ m_' = 0
  /\ UNCHANGED <<finishedTasks, finishedTasksLimit, resumes, tg_returned>>
  /\ UNCHANGED not_ls_vars

\* lines 510-513 on an empty queue: top() and pop() of an empty
\* std::priority_queue are undefined; the worker goes on with any search
\* number, or does not go on at all
TopPopEmpty(w) ==
  /\ At(w, "top")
  /\ local_searches = {}
  /\ \/ /\ \E search \in DOMAIN resumes :
             workers' = [workers EXCEPT ![w] =
               [pc |-> "resumeLocalSearch", search |-> search]]
        /\ m_' = 0
     \/ /\ Goto(w, "undefined")
        /\ UNCHANGED m_
  /\ UNCHANGED <<local_searches, finishedTasks, finishedTasksLimit, resumes, tg_returned>>
  /\ UNCHANGED not_ls_vars

\* lines 514-519: resumeLocalSearch returns a gain, and the search is put
\* back under the mutex
ResumeReinsert(w, gain) ==
  /\ At(w, "resumeLocalSearch")
  /\ resumes[workers[w].search] > 0
  /\ m_ = 0
  /\ resumes' = [resumes EXCEPT ![workers[w].search] = @ - 1]
  /\ local_searches' = local_searches \cup {<<gain, workers[w].search>>}
  /\ Goto(w, "while")
  /\ UNCHANGED <<finishedTasks, finishedTasksLimit, m_, tg_returned>>
  /\ UNCHANGED not_ls_vars

\* lines 514-515: resumeLocalSearch returns nothing
ResumeFinished(w) ==
  /\ At(w, "resumeLocalSearch")
  /\ Goto(w, "while")
  /\ UNCHANGED <<local_searches, finishedTasks, finishedTasksLimit, m_, resumes, tg_returned>>
  /\ UNCHANGED not_ls_vars

\* line 528: finishedTasks.fetch_add(1)
FetchAdd(w) ==
  /\ At(w, "fetch_add")
  /\ finishedTasks' = finishedTasks + 1
  /\ Goto(w, "done")
  /\ UNCHANGED <<local_searches, finishedTasksLimit, m_, resumes, tg_returned>>
  /\ UNCHANGED not_ls_vars

\* line 533: tg.wait() returns
TgWait ==
  /\ workers # <<>>
  /\ ~tg_returned
  /\ \A w \in DOMAIN workers : workers[w].pc = "done"
  /\ tg_returned' = TRUE
  /\ UNCHANGED <<local_searches, finishedTasks, finishedTasksLimit, m_, workers, resumes>>
  /\ UNCHANGED not_ls_vars

LocalSearchNext ==
  \/ \E w \in 1..NumThreads :
       \/ While(w)
       \/ Lock(w)
       \/ TopPop(w)
       \/ TopPopEmpty(w)
       \/ \E gain \in Gains : ResumeReinsert(w, gain)
       \/ ResumeFinished(w)
       \/ FetchAdd(w)
  \/ TgWait

SpecLocalSearch == LocalSearchInit /\ [][LocalSearchNext]_vars

\* the worker w leaves lines 510-513 with a search
Takes(w) == At(w, "top") /\ workers'[w].pc # "top"

(***************************************************************************)
(* C24: a worker that takes a search holds the mutex, takes the top of    *)
(* the queue, and takes it only while finishedTasks is below the limit; a  *)
(* search is put back iff resumeLocalSearch returned a gain; every worker  *)
(* increments finishedTasks once, when it exits; the call returns after    *)
(* all workers have exited.                                                *)
(***************************************************************************)
C24_ResumeInPriorityOrder ==
  /\ [][\A w \in DOMAIN workers :
          Takes(w) =>
            /\ m_ = w
            /\ local_searches # {}
            /\ workers'[w].pc = "resumeLocalSearch"
            /\ workers'[w].search = top(local_searches)[2]
            /\ finishedTasks < finishedTasksLimit]_vars
  /\ [][\A w \in DOMAIN workers :
          (At(w, "resumeLocalSearch") /\ workers'[w].pc = "while") =>
            ((local_searches' # local_searches)
               <=> \E gain \in Gains : ResumeReinsert(w, gain))]_vars
  /\ [](finishedTasks =
          Cardinality({w \in DOMAIN workers : workers[w].pc = "done"}))
  /\ [](tg_returned => \A w \in DOMAIN workers : workers[w].pc = "done")

\* what holds of the queue whatever the interleaving
C24_WorkersExitOnce ==
  /\ finishedTasks = Cardinality({w \in DOMAIN workers : workers[w].pc = "done"})
  /\ (tg_returned => \A w \in DOMAIN workers : workers[w].pc = "done")
  /\ \A p1, p2 \in local_searches : p1[2] = p2[2] => p1 = p2

\* the workers that are resuming the search, and its entries in the queue
Resuming(search) ==
  {w \in DOMAIN workers :
     workers[w].pc = "resumeLocalSearch" /\ workers[w].search = search}

Queued(search) == {p \in local_searches : p[2] = search}

(***************************************************************************)
(* C35: no search is executed by two workers at the same time: a search is *)
(* in the priority queue at most once or is being resumed by one worker,   *)
(* never both.                                                             *)
(***************************************************************************)
C35_SearchHasOneOwner ==
  \A search \in DOMAIN resumes :
    Cardinality(Resuming(search)) + Cardinality(Queued(search)) <= 1

\* every step but top() and pop() on an empty queue keeps it so
C35_OnlyEmptyPopSharesASearch ==
  [][(C35_SearchHasOneOwner /\ ~(\E w \in DOMAIN workers : TopPopEmpty(w)))
       => C35_SearchHasOneOwner']_vars

(***************************************************************************)
(* C36: a worker never reads top() of or pops from an empty priority       *)
(* queue: whenever a worker is at lines 510-512, inside the mutex, the     *)
(* queue is not empty.                                                     *)
(***************************************************************************)
C36_TopOfNonEmptyQueue ==
  \A w \in DOMAIN workers : (At(w, "top") /\ m_ = w) => local_searches # {}

\* a worker never holds the mutex outside lines 510-512, and two workers
\* never hold it together
C36_MutexHeldAtTopOnly ==
  \A w \in DOMAIN workers :
    (m_ = w) <=> workers[w].pc \in {"top", "undefined"}


(***************************************************************************)
(* Part 3d: one FM search and its rollback                                 *)
(* (spec 4.7; the test of fm_core_test.cc, lines 97-113; metrics.h).       *)
(*                                                                         *)
(* LocalizedKWayFM and the move tracker are not in src/.  After the spec,  *)
(* a search moves vertices one at a time, appends each move with its km1   *)
(* gain to the move tracker, and at its end keeps the prefix of its moves  *)
(* with the largest cumulative gain: the later moves are reverted, last    *)
(* move first, and their gains in the tracker become invalidGain.          *)
(* metrics::km1 is the objective.                                          *)
(***************************************************************************)
\* the hyperedges e0, e1, ... have the weights 1, 2, ...
edgeWeight(he) == he + 1

RECURSIVE SumOfEdges(_, _)
SumOfEdges(f(_), hes) ==
  IF hes = {} THEN 0
  ELSE LET he == CHOOSE x \in hes : TRUE IN f(he) + SumOfEdges(f, hes \ {he})

\* metrics.h, lines 63-72
hyperedgeCut(h) ==
  LET conn(he) == Cardinality({h.part[v] : v \in h.pins[he]})
      cost(he) == IF conn(he) > 1 THEN edgeWeight(he) ELSE 0
  IN SumOfEdges(cost, DOMAIN h.pins)

km1_unweighted(h) ==
  LET conn(he) == Cardinality({h.part[v] : v \in h.pins[he]})
      cost(he) == Max2(conn(he) - 1, 0)
  IN SumOfEdges(cost, DOMAIN h.pins)

\* metrics.h, lines 74-81
km1(h) ==
  LET conn(he) == Cardinality({h.part[v] : v \in h.pins[he]})
      cost(he) == Max2(conn(he) - 1, 0) * edgeWeight(he)
  IN SumOfEdges(cost, DOMAIN h.pins)

\* km1_gain(v, from, to) of spec 4.3
km1Gain(v, from, to) ==
  LET benefit(he) == IF pinCountInPart(he, from) = 1 THEN edgeWeight(he) ELSE 0
      penalty(he) == IF pinCountInPart(he, to) = 0 THEN edgeWeight(he) ELSE 0
      delta(he) == benefit(he) - penalty(he)
  IN SumOfEdges(delta, incidentEdges(v))

\* the cumulative gain of the first n moves
RECURSIVE CumulativeGain(_, _)
CumulativeGain(moves, n) ==
  IF n = 0 THEN 0 ELSE CumulativeGain(moves, n - 1) + moves[n].gain

IsBest(moves, n) ==
  \A j \in 0..Len(moves) : CumulativeGain(moves, j) <= CumulativeGain(moves, n)

\* no move is reverted
no_rollback(moves) == Len(moves)

shortest_best_prefix(moves) ==
  CHOOSE n \in 0..Len(moves) :
    /\ IsBest(moves, n)
    /\ \A j \in 0..Len(moves) : IsBest(moves, j) => j >= n

\* the move-id prefix maximizing cumulative gain; of several, the longest
best_prefix(moves) ==
  CHOOSE n \in 0..Len(moves) :
    /\ IsBest(moves, n)
    /\ \A j \in 0..Len(moves) : IsBest(moves, j) => j <= n

\* the tracker after the moves behind the first n have been reverted
MarkReverted(moves, n) ==
  [i \in DOMAIN moves |-> IF i > n THEN [moves[i] EXCEPT !.gain = invalidGain]
                          ELSE moves[i]]

FmInputs == CutInputs

FmIdleRest ==
  /\ _block_pair_cut_he = <<>> /\ edge_list = {} /\ unvisited = {}
  /\ NoContract /\ NoDataStructures /\ NoScheduler /\ NoNodeLocks /\ NoBlockWeights
  /\ NoCutEdges /\ NoLocalSearches /\ NoPartData /\ NoFlow

not_fm_vars ==
  <<contract_vars, ds_vars, scheduler_vars, node_lock_vars, block_weight_vars,
    _block_pair_cut_he, edge_list, unvisited, cut_vars, ls_vars, part_vars,
    flow_vars>>

\* the test up to the call of findMoves (lines 98-100)
FmInit ==
  /\ phg \in FmInputs
  /\ moveOrder = <<>>
  /\ fm = [pc |-> "findMoves", initial_km1 |-> km1(phg), best |-> 0, performed |-> <<>>]
  /\ FmIdleRest

\* step 2 of the protocol: a move of v to another block and its tracker entry
FmMove(v, to) ==
  /\ fm.pc = "findMoves"
  /\ Len(moveOrder) < MaxFmMoves
  /\ to # phg.part[v]
  /\ moveOrder' = Append(moveOrder,
       [node |-> v, from |-> phg.part[v], to |-> to,
        gain |-> km1Gain(v, phg.part[v], to)])
  /\ phg' = [phg EXCEPT !.part[v] = to]
  /\ UNCHANGED fm
  /\ UNCHANGED not_fm_vars

\* step 3: the search stops; step 4 finds the best prefix
FmStop ==
  /\ fm.pc = "findMoves"
  /\ fm' = [fm EXCEPT !.pc = "rollback", !.best = best_prefix(moveOrder),
                      !.performed = moveOrder]
  /\ UNCHANGED <<phg, moveOrder>>
  /\ UNCHANGED not_fm_vars

\* the last move behind best that is not yet reverted
LastKept == CHOOSE i \in 0..Len(moveOrder) :
              /\ \A j \in DOMAIN moveOrder : j > i => moveOrder[j].gain = invalidGain
              /\ (i > 0 => moveOrder[i].gain # invalidGain)

\* step 4: the inverse change_part of the last move behind best
FmRevert ==
  /\ fm.pc = "rollback"
  /\ LastKept > fm.best
  /\ phg' = [phg EXCEPT !.part[moveOrder[LastKept].node] = moveOrder[LastKept].from]
  /\ moveOrder' = MarkReverted(moveOrder, LastKept - 1)
  /\ UNCHANGED fm
  /\ UNCHANGED not_fm_vars

\* findMoves returns
FmReturn ==
  /\ fm.pc = "rollback"
  /\ LastKept = fm.best
  /\ fm' = [fm EXCEPT !.pc = "done"]
  /\ UNCHANGED <<phg, moveOrder>>
  /\ UNCHANGED not_fm_vars

FmNext ==
  \/ \E v \in PartNodes, to \in Blocks : FmMove(v, to)
  \/ FmStop
  \/ FmRevert
  \/ FmReturn

SpecFM == FmInit /\ [][FmNext]_vars

\* lines 102-109 of the test: the gains of the moves that were not reverted
RECURSIVE accumulated_gain(_, _)
accumulated_gain(moves, n) ==
  IF n = 0 THEN 0
  ELSE accumulated_gain(moves, n - 1)
         + (IF moves[n].gain # invalidGain THEN moves[n].gain ELSE 0)

TrackedGains == (0 - MaxLoss)..MaxMoveGain

\* the i-th move of the sequence
TrackedMove(i, gain) ==
  [node |-> 0, from |-> (i - 1) % 2, to |-> i % 2, gain |-> gain]

\* a hypergraph with every vertex in block 0
AllInBlock0 == CHOOSE h \in FmInputs : \A v \in PartNodes : h.part[v] = 0

RollbackInit ==
  /\ \E n \in 0..MaxTrackedMoves :
       /\ \E gains \in [1..n -> TrackedGains] :
            moveOrder = [i \in 1..n |-> TrackedMove(i, gains[i])]
       /\ phg = [AllInBlock0 EXCEPT !.part[0] = n % 2]
  /\ fm = [pc |-> "findMoves", initial_km1 |-> 0, best |-> 0, performed |-> <<>>]
  /\ FmIdleRest

RollbackNext ==
  \/ FmStop
  \/ FmRevert
  \/ FmReturn

SpecRollback == RollbackInit /\ [][RollbackNext]_vars

GainsOf(moves) == [i \in DOMAIN moves |-> moves[i].gain]

(***************************************************************************)
(* C26: when the rollback is done, the kept moves are a prefix of the      *)
(* performed moves whose cumulative gain no prefix exceeds and no longer   *)
(* prefix equals; the kept moves have their gains, the later ones have     *)
(* invalidGain and are undone; the moves are reverted last move first;     *)
(* for the gains [+3,+1,-2,+2,-5] the first four moves are kept and their  *)
(* cumulative gain is 4.                                                   *)
(***************************************************************************)
C26_RollbackKeepsBestPrefix ==
  /\ [](fm.pc = "done" =>
         LET kept == {i \in DOMAIN moveOrder : moveOrder[i].gain # invalidGain}
             n == Cardinality(kept)
         IN /\ kept = 1..n
            /\ \A i \in kept : moveOrder[i] = fm.performed[i]
            /\ \A j \in 0..Len(moveOrder) :
                 /\ CumulativeGain(fm.performed, j) <= CumulativeGain(fm.performed, n)
                 /\ CumulativeGain(fm.performed, j) = CumulativeGain(fm.performed, n)
                      => j <= n
            /\ phg.part[0] = n % 2
            /\ GainsOf(fm.performed) = <<3, 1, -2, 2, -5>>
                 => (n = 4 /\ CumulativeGain(fm.performed, n) = 4))
  /\ [][moveOrder' # moveOrder /\ fm.pc = "rollback" =>
          \E i \in DOMAIN moveOrder :
            /\ moveOrder[i].gain # invalidGain
            /\ \A j \in DOMAIN moveOrder : j > i => moveOrder[j].gain = invalidGain
            /\ moveOrder' = [moveOrder EXCEPT ![i].gain = invalidGain]
            /\ phg'.part[moveOrder[i].node] = moveOrder[i].from]_vars

\* the rollback of the gains [+3,+1,-2,+2,-5] is done
C26_Witness ==
  /\ fm.pc = "done"
  /\ GainsOf(fm.performed) = <<3, 1, -2, 2, -5>>
  /\ moveOrder[5].gain = invalidGain

(***************************************************************************)
(* C27, as stated: the cumulative gain never drops from one kept move to   *)
(* the next, that is, no kept move has a negative gain.                    *)
(***************************************************************************)
C27_KeptGainsNeverDrop ==
  fm.pc = "done" =>
    \A i \in 1..fm.best :
      CumulativeGain(moveOrder, i) >= CumulativeGain(moveOrder, i - 1)

(***************************************************************************)
(* C27, amended: the cumulative gain of the kept moves is at least the     *)
(* cumulative gain after each of them, and at least 0.                     *)
(***************************************************************************)
C27_KeptWindowEndsAtItsMaximum ==
  fm.pc = "done" =>
    \A i \in 0..fm.best :
      CumulativeGain(moveOrder, i) <= CumulativeGain(moveOrder, fm.best)

\* a kept window in which the cumulative gain drops
C27_Witness ==
  /\ fm.pc = "done"
  /\ \E i \in 1..fm.best : moveOrder[i].gain < 0

(***************************************************************************)
(* Part 3e: the partitioned hypergraph (spec 3 and 4.3) and                *)
(* SchedulerBase::changeNodePart, lines 169-175.                           *)
(*                                                                         *)
(* PartitionedHypergraph is not in src/.  After the spec it stores, besides*)
(* the block of every vertex, the pin counts, the connectivity sets and    *)
(* the part weights; change_part tests and moves the weight and the vertex *)
(* in one atomic step and then updates the incident hyperedges one at a    *)
(* time, the pin counts and the connectivity set of one hyperedge          *)
(* together.  Up to NumThreads threads call change_part, directly or       *)
(* through changeNodePart of the scheduler, for different vertices.        *)
(***************************************************************************)
\* every vertex has weight 1
nodeWeight(v) == 1

\* initialize_partition: the data computed from scratch
InitialPinCounts(h) ==
  [he \in Nets |-> [b \in Blocks |->
     Cardinality({v \in h.pins[he] : h.part[v] = b})]]

InitialConnectivitySets(h) ==
  [he \in Nets |-> {h.part[v] : v \in h.pins[he]}]

InitialPartWeights(h) ==
  [b \in Blocks |-> Cardinality({v \in PartNodes : h.part[v] = b})]

not_part_vars ==
  <<contract_vars, ds_vars, scheduler_vars, node_lock_vars, block_weight_vars,
    _block_pair_cut_he, edge_list, unvisited, cut_vars, ls_vars, tracker_vars,
    flow_vars>>

\* the partitions in which the blocks in use are numbered in the order of
\* their first vertex
PartInputs ==
  {h \in CutInputs :
     \A v \in PartNodes :
       h.part[v] = 0 \/ \E u \in 0..(v - 1) : h.part[u] >= h.part[v] - 1}

\* initialize_partition has returned with a balanced partition
PartDataInit ==
  /\ phg \in PartInputs
  /\ max_part_weight \in 1..MaxPartWeight
  /\ pin_count_in_part = InitialPinCounts(phg)
  /\ connectivity_set = InitialConnectivitySets(phg)
  /\ part_weight = InitialPartWeights(phg)
  /\ \A b \in Blocks : part_weight[b] <= max_part_weight
  /\ callers = [t \in Threads |-> Idle]
  /\ num_calls = 0
  /\ _block_pair_cut_he = <<>> /\ edge_list = {} /\ unvisited = {}
  /\ NoContract /\ NoDataStructures /\ NoScheduler /\ NoNodeLocks /\ NoBlockWeights
  /\ NoCutEdges /\ NoLocalSearches /\ NoTracker /\ NoFlow

\* success iff part_weight[to] + weight(v) <= max_part_weight
fits(to, v) == part_weight[to] + nodeWeight(v) <= max_part_weight

\* change_part(v, from, to), called directly or by changeNodePart of the
\* scheduler (line 172): the test and the move of the weight and the vertex
ChangePart(t, v, to, via) ==
  /\ callers[t] = Idle
  /\ num_calls < MaxMoves
  /\ \A u \in Threads : callers[u] # Idle => callers[u].v # v
  /\ to # phg.part[v]
  /\ num_calls' = num_calls + 1
  /\ IF fits(to, v)
       THEN /\ part_weight' = [part_weight EXCEPT ![phg.part[v]] = @ - nodeWeight(v),
                                                  ![to] = @ + nodeWeight(v)]
            /\ phg' = [phg EXCEPT !.part[v] = to]
            /\ callers' = [callers EXCEPT ![t] =
                 [pc |-> "incidentEdges", v |-> v, from |-> phg.part[v], to |-> to,
                  rest |-> incidentEdges(v), via |-> via, success |-> TRUE]]
       ELSE /\ UNCHANGED <<part_weight, phg>>
            /\ callers' = [callers EXCEPT ![t] =
                 [pc |-> "incidentEdges", v |-> v, from |-> phg.part[v], to |-> to,
                  rest |-> {}, via |-> via, success |-> FALSE]]
  /\ UNCHANGED <<pin_count_in_part, connectivity_set, max_part_weight>>
  /\ UNCHANGED not_part_vars

connectivity_set_only_grows(set, counts, from, to) == set \cup {to}

\* the connectivity set of a hyperedge after its pin counts changed
UpdatedConnectivitySet(set, counts, from, to) ==
  (IF counts[from] = 0 THEN set \ {from} ELSE set) \cup {to}

\* the update of one incident hyperedge: a pin less in from, one more in to
ChangePartEdge(t) ==
  /\ callers[t] # Idle
  /\ callers[t].pc = "incidentEdges"
  /\ callers[t].rest # {}
  /\ LET c == callers[t]
         he == CHOOSE x \in c.rest : \A y \in c.rest : x <= y
         counts == [pin_count_in_part[he] EXCEPT ![c.from] = @ - 1, ![c.to] = @ + 1]
     IN /\ pin_count_in_part' = [pin_count_in_part EXCEPT ![he] = counts]
        /\ connectivity_set' = [connectivity_set EXCEPT ![he] =
             UpdatedConnectivitySet(@, counts, c.from, c.to)]
        /\ callers' = [callers EXCEPT ![t].rest = @ \ {he}]
  /\ UNCHANGED <<phg, part_weight, max_part_weight, num_calls>>
  /\ UNCHANGED not_part_vars

\* change_part returns; changeNodePart goes on to line 174
ChangePartReturn(t) ==
  /\ callers[t] # Idle
  /\ callers[t].pc = "incidentEdges"
  /\ callers[t].rest = {}
  /\ callers' = [callers EXCEPT ![t] =
       IF callers[t].via = "changeNodePart"
         THEN [callers[t] EXCEPT !.pc = "ASSERT"] ELSE Idle]
  /\ UNCHANGED <<phg, pin_count_in_part, connectivity_set, part_weight,
                 max_part_weight, num_calls>>
  /\ UNCHANGED not_part_vars

\* line 174: ASSERT(success)
AssertSuccess(t) ==
  /\ callers[t] # Idle
  /\ callers[t].pc = "ASSERT"
  /\ callers' = [callers EXCEPT ![t] = Idle]
  /\ UNCHANGED <<phg, pin_count_in_part, connectivity_set, part_weight,
                 max_part_weight, num_calls>>
  /\ UNCHANGED not_part_vars

PartDataNext ==
  \/ \E t \in Threads, v \in PartNodes, to \in Blocks :
       \/ ChangePart(t, v, to, "change_part")
       \/ ChangePart(t, v, to, "changeNodePart")
  \/ \E t \in Threads : ChangePartEdge(t)
  \/ \E t \in Threads : ChangePartReturn(t)
  \/ \E t \in Threads : AssertSuccess(t)

SpecPartData == PartDataInit /\ [][PartDataNext]_vars

RECURSIVE SumOfCounts(_, _)
SumOfCounts(counts, blocks) ==
  IF blocks = {} THEN 0
  ELSE LET b == CHOOSE x \in blocks : TRUE
       IN counts[b] + SumOfCounts(counts, blocks \ {b})

NoCaller == \A t \in Threads : callers[t] = Idle

(***************************************************************************)
(* C28: in every state, also in the middle of concurrent change_part       *)
(* calls, the pin counts of every hyperedge sum to its size and its        *)
(* connectivity set is the set of blocks with a positive pin count (so     *)
(* that connectivity(e) is their number); when no call is running, the     *)
(* pin count of a block is the number of pins of the hyperedge in it.      *)
(***************************************************************************)
C28_PinCountsAndConnectivity ==
  /\ \A he \in Nets :
       /\ SumOfCounts(pin_count_in_part[he], Blocks) = Cardinality(phg.pins[he])
       /\ connectivity_set[he] = {b \in Blocks : pin_count_in_part[he][b] > 0}
       /\ \A b \in Blocks : pin_count_in_part[he][b] >= 0
  /\ NoCaller =>
       \A he \in Nets, b \in Blocks :
         pin_count_in_part[he][b] = pinCountInPart(he, b)

\* two calls for two pins of one hyperedge are updating their hyperedges;
\* one of them has emptied a block of the hyperedge
C28_Witness ==
  /\ \A t \in Threads : callers[t] # Idle /\ callers[t].pc = "incidentEdges"
                        /\ callers[t].success
  /\ \E he \in Nets :
       /\ {callers[t].v : t \in Threads} \subseteq phg.pins[he]
       /\ connectivity_set[he] # InitialConnectivitySets(phg)[he]
       /\ \E t \in Threads : he \in callers[t].rest

\* the thread t makes its call of change_part in this step
Called(t) == callers[t] = Idle /\ callers'[t] # Idle

\* the contract of change_part
ChangePartContract ==
  /\ [][\A t \in Threads : Called(t) =>
          LET c == callers'[t]
          IN /\ c.success <=> part_weight[c.to] + nodeWeight(c.v) <= max_part_weight
             /\ c.success =>
                  /\ part_weight'[c.from] = part_weight[c.from] - nodeWeight(c.v)
                  /\ part_weight'[c.to] = part_weight[c.to] + nodeWeight(c.v)
                  /\ phg'.part[c.v] = c.to
             /\ ~c.success =>
                  UNCHANGED <<phg, part_weight, pin_count_in_part, connectivity_set>>]_vars
  /\ [][\A t \in Threads :
          (callers[t] # Idle /\ ~callers[t].success /\ callers'[t] # callers[t])
            => UNCHANGED <<phg, part_weight, pin_count_in_part, connectivity_set>>]_vars
  /\ [](\A b \in Blocks : part_weight[b] <= max_part_weight)

(***************************************************************************)
(* C29: change_part succeeds iff part_weight[to] + weight(v) is at most    *)
(* max_part_weight; a successful call moves the weight and the vertex, a   *)
(* failed call changes nothing; no part weight ever exceeds                *)
(* max_part_weight; and the ASSERT(success) of changeNodePart of the       *)
(* scheduler never sees a failed call.                                     *)
(***************************************************************************)
C29_ChangePartNeverFailsInScheduler ==
  /\ ChangePartContract
  /\ [](\A t \in Threads :
          (callers[t] # Idle /\ callers[t].pc = "ASSERT") => callers[t].success)

(***************************************************************************)
(* Part 3f: the flow refinement of the block pairs (spec 4.8, task body;  *)
(* the tests of the flow refiner; metrics.h).                              *)
(*                                                                         *)
(* FlowRefiner is not in src/.  After the spec, the task of a block pair   *)
(* builds a flow problem from the vertices of its two blocks that it       *)
(* holds, computes a cut of it and applies the moves with change_part.     *)
(* The pairs in flight are disjoint under the MatchingScheduler and may    *)
(* share a block under the OptScheduler.  A task reads the partition when  *)
(* it computes its moves and applies them in a later step; it applies only *)
(* moves that make the objective it read smaller.                          *)
(***************************************************************************)
FlowNodes == 0..(NumFlowNodes - 1)

FlowNets == 0..(NumFlowEdges - 1)

\* different hyperedges of two pins, every vertex in one of them; the blocks
\* in use are numbered in the order of their first vertex
FlowInputs ==
  {h \in [pins : [FlowNets -> {p \in SUBSET FlowNodes : Cardinality(p) = 2}],
          part : [FlowNodes -> Blocks]] :
     /\ \A he1, he2 \in FlowNets : h.pins[he1] = h.pins[he2] => he1 = he2
     /\ UNION {h.pins[he] : he \in FlowNets} = FlowNodes
     /\ \A v \in FlowNodes :
          h.part[v] = 0 \/ \E u \in 0..(v - 1) : h.part[u] >= h.part[v] - 1}

\* every block of h has at most MaxPartWeight vertices
Balanced(h) ==
  \A b \in Blocks : Cardinality({v \in DOMAIN h.part : h.part[v] = b}) <= MaxPartWeight

FlowAlgorithms == {"flow_opt", "flow_match"}

Objectives == {"km1", "cut"}

\* metrics::objective (metrics.h, lines 111-118)
objective(h, obj) == IF obj = "cut" THEN hyperedgeCut(h) ELSE km1(h)

FlowBusy == {t \in Threads : flow_tasks[t].pc \notin {"idle", "done"}}

\* the vertices held by the tasks in flight: a task holds the vertices it
\* moves until it has moved them
FlowHeld == UNION {flow_tasks[t].moves : t \in FlowBusy}

\* the partition after the vertices of moved changed sides in the pair
ApplyMoves(h, pair, moved) ==
  [h EXCEPT !.part = [v \in DOMAIN h.part |->
     IF v \in moved
       THEN (IF h.part[v] = pair[1] THEN pair[2] ELSE pair[1])
       ELSE h.part[v]]]

not_flow_vars ==
  <<contract_vars, ds_vars, scheduler_vars, node_lock_vars, block_weight_vars,
    _block_pair_cut_he, edge_list, unvisited, cut_vars, ls_vars, tracker_vars,
    part_vars>>

\* the fixture of the tests: a partition, the algorithm and the objective
FlowInit ==
  /\ phg \in FlowInputs
  /\ Balanced(phg)
  /\ \E algorithm \in FlowAlgorithms, obj \in Objectives :
       flow_context = [algorithm |-> algorithm, objective |-> obj,
                       objective_before |-> objective(phg, obj)]
  /\ flow_tasks = [t \in Threads |-> Idle]
  /\ _block_pair_cut_he = <<>> /\ edge_list = {} /\ unvisited = {}
  /\ NoContract /\ NoDataStructures /\ NoScheduler /\ NoNodeLocks /\ NoBlockWeights
  /\ NoCutEdges /\ NoLocalSearches /\ NoTracker /\ NoPartData

any_pair_together(pair) == TRUE

\* the pairs the scheduler lets run together with the pairs in flight
together(pair) ==
  \A u \in FlowBusy :
    IF flow_context.algorithm = "flow_match"
      THEN BlocksOf(flow_tasks[u].pair) \cap BlocksOf(pair) = {}
      ELSE flow_tasks[u].pair # pair

\* the vertices of the pair that no task holds
Free(pair) == {v \in FlowNodes \ FlowHeld : phg.part[v] \in BlocksOf(pair)}

\* the moves keep the balance and make the objective of the partition smaller
Improves(pair, moved) ==
  /\ Balanced(ApplyMoves(phg, pair, moved))
  /\ objective(ApplyMoves(phg, pair, moved), flow_context.objective)
       < objective(phg, flow_context.objective)

Startable(t, pair) ==
  /\ flow_tasks[t] = Idle
  /\ together(pair)
  /\ \E he \in FlowNets : {pair[1], pair[2]} \subseteq connectivitySet(he)

\* steps (a) to (c) of the task body: the task of a pair starts, builds the
\* flow problem of the vertices it holds and finds a cut of it
FlowMinCut(t, pair, moved) ==
  /\ Startable(t, pair)
  /\ moved \subseteq Free(pair)
  /\ Improves(pair, moved)
  /\ flow_tasks' = [flow_tasks EXCEPT ![t] =
       [pc |-> "change_part", pair |-> pair, moves |-> moved]]
  /\ UNCHANGED <<phg, flow_context>>
  /\ UNCHANGED not_flow_vars

\* no cut is better than the partition: the task ends
FlowNoImprovement(t, pair) ==
  /\ Startable(t, pair)
  /\ \A moved \in SUBSET Free(pair) : ~Improves(pair, moved)
  /\ flow_tasks' = [flow_tasks EXCEPT ![t] = [pc |-> "done"]]
  /\ UNCHANGED <<phg, flow_context>>
  /\ UNCHANGED not_flow_vars

\* step (d): the moves are applied, and the task ends
FlowApply(t) ==
  /\ flow_tasks[t].pc = "change_part"
  /\ phg' = ApplyMoves(phg, flow_tasks[t].pair, flow_tasks[t].moves)
  /\ flow_tasks' = [flow_tasks EXCEPT ![t] = [pc |-> "done"]]
  /\ UNCHANGED flow_context
  /\ UNCHANGED not_flow_vars

FlowNext ==
  \/ \E t \in Threads, pair \in BlockPairs :
       \E moved \in SUBSET Free(pair) : FlowMinCut(t, pair, moved)
  \/ \E t \in Threads, pair \in BlockPairs : FlowNoImprovement(t, pair)
  \/ \E t \in Threads : FlowApply(t)

SpecFlow == FlowInit /\ [][FlowNext]_vars

C30_MatchingNeverWorsens ==
  (flow_context.algorithm = "flow_match" /\ FlowBusy = {}) =>
    objective(phg, flow_context.objective) <= flow_context.objective_before

\* two tasks of the MatchingScheduler have both applied moves
C30_MatchingWitness ==
  /\ flow_context.algorithm = "flow_match"
  /\ \A t \in Threads : flow_tasks[t].pc = "done"
  /\ objective(phg, flow_context.objective) < flow_context.objective_before - 1

(***************************************************************************)
(* Part 3g: the block weights under the flow refinement (spec 4.8, block   *)
(* weight arbitration; init_block_weights and its comment, lines 207-254). *)
(*                                                                         *)
(* FlowRefiner is not in src/.  After the comment of init_block_weights    *)
(* the task of a pair aquires the weight of the vertices it holds from     *)
(* both blocks, computes with the weight of its blocks that it did not     *)
(* aquire, moves the vertices and writes the modified weight back.  Every  *)
(* call of aquire_block_weight and release_block_weight is one step: it    *)
(* runs under the write lock of its row.                                   *)
(***************************************************************************)
\* aquire_block_weight(block_to_aquire, other_block, amount), lines 226-231
aquire_block_weight(W, b, o, amount) ==
  [diagonal_minus(W, b, amount) EXCEPT ![b][o] = amount]

\* release_block_weight(block_to_release, other_block, amount), lines 233-238
release_block_weight(W, b, o, amount) ==
  [diagonal_plus(W, b, amount) EXCEPT ![b][o] = 0]

not_balance_vars ==
  <<contract_vars, ds_vars, scheduler_vars, node_lock_vars, quotient_vars, cut_vars,
    ls_vars, tracker_vars, pin_count_in_part, connectivity_set, callers, num_calls,
    partWeight, _rw_locks, refiners, flow_context, max_part_weight>>

\* a balanced partition, its block weights in the matrix, no task running
FlowBalanceInit ==
  /\ max_part_weight = MaxPartWeight
  /\ part_weight \in [Blocks -> 1..MaxPartWeight]
  /\ partWeight = part_weight
  /\ _block_weights =
       [i \in Blocks |-> [j \in Blocks |-> IF j = i THEN part_weight[i] ELSE 0]]
  /\ _rw_locks = [b \in Blocks |-> [writer |-> NoTask, readers |-> {}]]
  /\ refiners = <<>>
  /\ \E algorithm \in FlowAlgorithms : flow_context = [algorithm |-> algorithm]
  /\ flow_tasks = [t \in Threads |-> Idle]
  /\ pin_count_in_part = <<>> /\ connectivity_set = <<>>
  /\ callers = <<>> /\ num_calls = 0
  /\ NoContract /\ NoDataStructures /\ NoScheduler /\ NoNodeLocks /\ NoQuotientBuild
  /\ NoCutEdges /\ NoLocalSearches /\ NoTracker

\* the task of a pair starts and aquires the weight of the vertices of its
\* first block that it holds
FlowAquireFirst(t, pair, amount) ==
  /\ flow_tasks[t] = Idle
  /\ together(pair)
  /\ amount <= _block_weights[pair[1]][pair[1]]
  /\ _block_weights' = aquire_block_weight(_block_weights, pair[1], pair[2], amount)
  /\ flow_tasks' = [flow_tasks EXCEPT ![t] =
       [pc |-> "aquire_second", pair |-> pair, aquired |-> <<amount>>]]
  /\ UNCHANGED part_weight
  /\ UNCHANGED not_balance_vars

\* the same for its second block
FlowAquireSecond(t, amount) ==
  /\ flow_tasks[t].pc = "aquire_second"
  /\ LET pair == flow_tasks[t].pair IN
       /\ amount <= _block_weights[pair[2]][pair[2]]
       /\ _block_weights' = aquire_block_weight(_block_weights, pair[2], pair[1], amount)
  /\ flow_tasks' = [flow_tasks EXCEPT ![t].pc = "min_cut",
                                      ![t].aquired = Append(@, amount)]
  /\ UNCHANGED part_weight
  /\ UNCHANGED not_balance_vars

\* the block b of the pair (b, o) can take the weight: with the weight of b
\* that the task did not aquire it stays within the maximum
weight_fits(b, o, weight) == not_aquired_sum(b, o) + weight <= max_part_weight

\* the cut of the flow problem: the weight the task holds is split anew
\* between its two blocks, within the balance if it moves anything
FlowBalancedCut(t, modified) ==
  /\ flow_tasks[t].pc = "min_cut"
  /\ LET pair == flow_tasks[t].pair
         held == flow_tasks[t].aquired
     IN /\ modified[1] + modified[2] = held[1] + held[2]
        /\ \/ modified = held
           \/ /\ weight_fits(pair[1], pair[2], modified[1])
              /\ weight_fits(pair[2], pair[1], modified[2])
  /\ flow_tasks' = [flow_tasks EXCEPT ![t] =
       [pc |-> "change_part", pair |-> @.pair, aquired |-> @.aquired,
        modified |-> modified]]
  /\ UNCHANGED <<part_weight, _block_weights>>
  /\ UNCHANGED not_balance_vars

\* the moves are applied: the weight that changed sides leaves one block and
\* enters the other
FlowChangePart(t) ==
  /\ flow_tasks[t].pc = "change_part"
  /\ LET pair == flow_tasks[t].pair
         delta == flow_tasks[t].modified[1] - flow_tasks[t].aquired[1]
     IN part_weight' = [part_weight EXCEPT ![pair[1]] = @ + delta,
                                           ![pair[2]] = @ - delta]
  /\ flow_tasks' = [flow_tasks EXCEPT ![t].pc = "release_first"]
  /\ UNCHANGED _block_weights
  /\ UNCHANGED not_balance_vars

\* the modified weight is written back to the first block
FlowReleaseFirst(t) ==
  /\ flow_tasks[t].pc = "release_first"
  /\ LET pair == flow_tasks[t].pair IN
       _block_weights' = release_block_weight(_block_weights, pair[1], pair[2],
                                              flow_tasks[t].modified[1])
  /\ flow_tasks' = [flow_tasks EXCEPT ![t].pc = "release_second"]
  /\ UNCHANGED part_weight
  /\ UNCHANGED not_balance_vars

\* and to the second block; the task ends
FlowReleaseSecond(t) ==
  /\ flow_tasks[t].pc = "release_second"
  /\ LET pair == flow_tasks[t].pair IN
       _block_weights' = release_block_weight(_block_weights, pair[2], pair[1],
                                              flow_tasks[t].modified[2])
  /\ flow_tasks' = [flow_tasks EXCEPT ![t] = [pc |-> "done"]]
  /\ UNCHANGED part_weight
  /\ UNCHANGED not_balance_vars

FlowBalanceNext ==
  \/ \E t \in Threads, pair \in BlockPairs, amount \in 0..MaxAmount :
       FlowAquireFirst(t, pair, amount)
  \/ \E t \in Threads, amount \in 0..MaxAmount : FlowAquireSecond(t, amount)
  \/ \E t \in Threads, modified \in (0..(2 * MaxAmount)) \X (0..(2 * MaxAmount)) :
       FlowBalancedCut(t, modified)
  \/ \E t \in Threads : FlowChangePart(t)
  \/ \E t \in Threads : FlowReleaseFirst(t)
  \/ \E t \in Threads : FlowReleaseSecond(t)

SpecFlowBalance == FlowBalanceInit /\ [][FlowBalanceNext]_vars

(***************************************************************************)
(* C31: when no task of the flow refinement is running, every block weight *)
(* is within the allowed maximum, for both flow algorithms.                *)
(***************************************************************************)
C31_FlowKeepsBalance ==
  FlowBusy = {} => \A b \in Blocks : part_weight[b] <= max_part_weight

\* with the pairs in flight disjoint, as under the MatchingScheduler
C31_MatchingKeepsBalance ==
  (flow_context.algorithm = "flow_match" /\ FlowBusy = {}) =>
    \A b \in Blocks : part_weight[b] <= max_part_weight

\* two tasks of the MatchingScheduler have both moved weight into a block
\* that is full now
C31_MatchingWitness ==
  /\ flow_context.algorithm = "flow_match"
  /\ \A t \in Threads :
       /\ flow_tasks[t].pc = "done"
  /\ Cardinality({b \in Blocks : part_weight[b] = max_part_weight /\ partWeight[b] < max_part_weight}) >= 2

\* outside a transfer every row of the matrix sums to the weight of its block
C31_RowsHoldPartWeights ==
  (\A t \in Threads : flow_tasks[t].pc \notin {"change_part", "release_first", "release_second"}) =>
    \A b \in Blocks : RowSum(_block_weights, b) = part_weight[b]

(***************************************************************************)
(* Part 4a: StaticGraphFactory::construct (the second file of              *)
(* src/mt-kahypar/io/CMakeLists.txt, lines 919-1030).                      *)
(*                                                                         *)
(* Positions of the adjacency array and vertices are numbered from 0.  The *)
(* iterations of setup_edges interleave at their two fetch-and-increments  *)
(* of incident_edges_position; the slots an iteration writes are its own.  *)
(* The degree count and setup_nodes write one cell per vertex from values  *)
(* no other iteration writes, and are one step each.  The sort of a        *)
(* window is std::sort by target: entries of equal target end in any order. *)
(***************************************************************************)
GraphNodes == 0..(NumGraphNodes - 1)

\* edge_vector: num_edges pin lists of two different vertices, in any order
\* and with repetitions; edge_weight is absent (every weight is 1) or given
ConstructInputs ==
  UNION {[num_nodes : {NumGraphNodes}, num_edges : {num_edges},
          edge_vector : [0..(num_edges - 1) ->
                           {p \in GraphNodes \X GraphNodes : p[1] # p[2]}],
          edge_weight : {[pos \in 0..(num_edges - 1) |-> 1],
                         [pos \in 0..(num_edges - 1) |-> pos + 2]},
          stable_construction_of_degree : BOOLEAN] :
         num_edges \in 1..NumGraphEdges}

InputEdges == 0..(construct_args.num_edges - 1)

\* the degree count without the second pin of every edge
num_degree_of_first_pins(v) ==
  Cardinality({pos \in InputEdges : construct_args.edge_vector[pos][1] = v})

\* lines 937-956: the number of pins of the input that are the vertex
num_degree_per_vertex(v) ==
  Cardinality({<<pos, i>> \in InputEdges \X {1, 2} :
                 construct_args.edge_vector[pos][i] = v})

\* lines 962-963, TBBPrefixSum: the sum of the degrees of the vertices before v
RECURSIVE degree_prefix_sum_of(_)
degree_prefix_sum_of(v) ==
  IF v = 0 THEN 0 ELSE degree_prefix_sum_of(v - 1) + num_degree_per_vertex(v - 1)

not_graph_vars == <<contract_vars, refinement_vars, queue_vars, nlevel_vars, ilp_vars>>

\* lines 919-970: the graph is allocated, the degrees are counted and summed
ConstructInit ==
  /\ construct_args \in ConstructInputs
  /\ graph = [_num_nodes |-> construct_args.num_nodes,
              _num_edges |-> construct_args.num_edges,
              _nodes |-> [u \in 0..construct_args.num_nodes |-> 0],
              _edges |-> [p \in 0..(2 * construct_args.num_edges - 1) |-> <<>>]]
  /\ construct_locals =
       [pc |-> "parallel_invoke",
        degree_prefix_sum |-> [v \in 0..construct_args.num_nodes |->
                                 degree_prefix_sum_of(v)],
        incident_edges_position |-> [v \in GraphNodes |-> 0],
        incident_edges_pos0 |-> [pos \in InputEdges |-> -1],
        todo |-> InputEdges,
        setup_nodes |-> FALSE]
  /\ NoContract /\ NoRefinement /\ NoQueue /\ NoNLevel /\ NoILP

\* lines 974-975: the first fetch-and-increment of an iteration of setup_edges
SetupEdgePin0(pos) ==
  /\ construct_locals.pc = "parallel_invoke"
  /\ pos \in construct_locals.todo
  /\ construct_locals.incident_edges_pos0[pos] = -1
  /\ LET pin0 == construct_args.edge_vector[pos][1] IN
       construct_locals' = [construct_locals EXCEPT
         !.incident_edges_pos0[pos] =
            construct_locals.degree_prefix_sum[pin0]
              + construct_locals.incident_edges_position[pin0],
         !.incident_edges_position[pin0] = @ + 1]
  /\ UNCHANGED <<graph, construct_args>>
  /\ UNCHANGED not_graph_vars

\* lines 978-991: the second fetch-and-increment and the two half-edges
SetupEdgePin1(pos) ==
  /\ construct_locals.pc = "parallel_invoke"
  /\ pos \in construct_locals.todo
  /\ construct_locals.incident_edges_pos0[pos] # -1
  /\ LET pin0 == construct_args.edge_vector[pos][1]
         pin1 == construct_args.edge_vector[pos][2]
         incident_edges_pos0 == construct_locals.incident_edges_pos0[pos]
         incident_edges_pos1 ==
           construct_locals.degree_prefix_sum[pin1]
             + construct_locals.incident_edges_position[pin1]
         weight == construct_args.edge_weight[pos]
     IN /\ construct_locals' = [construct_locals EXCEPT
             !.incident_edges_position[pin1] = @ + 1,
             !.todo = @ \ {pos}]
        /\ graph' = [graph EXCEPT
             !._edges[incident_edges_pos0] =
                [target |-> pin1, backwardsEdge |-> incident_edges_pos1,
                 weight |-> weight],
             !._edges[incident_edges_pos1] =
                [target |-> pin0, backwardsEdge |-> incident_edges_pos0,
                 weight |-> weight]]
  /\ UNCHANGED construct_args
  /\ UNCHANGED not_graph_vars

\* lines 995-1004: setup_nodes
SetupNodes ==
  /\ construct_locals.pc = "parallel_invoke"
  /\ ~construct_locals.setup_nodes
  /\ graph' = [graph EXCEPT !._nodes =
       [u \in DOMAIN graph._nodes |->
          IF u < graph._num_nodes THEN construct_locals.degree_prefix_sum[u]
          ELSE graph._nodes[u]]]
  /\ construct_locals' = [construct_locals EXCEPT !.setup_nodes = TRUE]
  /\ UNCHANGED construct_args
  /\ UNCHANGED not_graph_vars

\* lines 1010-1013: parallel_invoke has returned; the sentinel is added
AddSentinel ==
  /\ construct_locals.pc = "parallel_invoke"
  /\ construct_locals.todo = {}
  /\ construct_locals.setup_nodes
  /\ graph' = [graph EXCEPT !._nodes[graph._num_nodes] = 2 * graph._num_edges]
  /\ construct_locals' = [construct_locals EXCEPT
       !.pc = IF construct_args.stable_construction_of_degree
                THEN "sort" ELSE "return",
       !.todo = IF construct_args.stable_construction_of_degree
                  THEN GraphNodes ELSE {}]
  /\ UNCHANGED construct_args
  /\ UNCHANGED not_graph_vars

\* the window of the vertex u in the adjacency array
NodeWindow(u) == graph._nodes[u]..(graph._nodes[u + 1] - 1)

\* lines 1015-1024: std::sort of the window of u by target; the entries are
\* moved as they are
SortIncidentEdges(u, order) ==
  /\ construct_locals.pc = "sort"
  /\ u \in construct_locals.todo
  /\ order \in [NodeWindow(u) -> NodeWindow(u)]
  /\ \A p, q \in NodeWindow(u) : p # q => order[p] # order[q]
  /\ \A p, q \in NodeWindow(u) :
       p < q => graph._edges[order[p]].target <= graph._edges[order[q]].target
  /\ graph' = [graph EXCEPT !._edges =
       [p \in DOMAIN graph._edges |->
          IF p \in NodeWindow(u) THEN graph._edges[order[p]] ELSE graph._edges[p]]]
  /\ construct_locals' = [construct_locals EXCEPT !.todo = @ \ {u}]
  /\ UNCHANGED construct_args
  /\ UNCHANGED not_graph_vars

\* lines 1026-1029: the graph is returned
ConstructReturn ==
  /\ construct_locals.pc \in {"sort", "return"}
  /\ construct_locals.todo = {}
  /\ construct_locals.pc # "returned"
  /\ construct_locals' = [construct_locals EXCEPT !.pc = "returned"]
  /\ UNCHANGED <<graph, construct_args>>
  /\ UNCHANGED not_graph_vars

ConstructNext ==
  \/ \E pos \in InputEdges : SetupEdgePin0(pos)
  \/ \E pos \in InputEdges : SetupEdgePin1(pos)
  \/ SetupNodes
  \/ AddSentinel
  \/ \E u \in GraphNodes :
       \E order \in [NodeWindow(u) -> NodeWindow(u)] : SortIncidentEdges(u, order)
  \/ ConstructReturn

SpecConstruct == ConstructInit /\ [][ConstructNext]_vars

Constructed == construct_locals # <<>> /\ construct_locals.pc = "returned"

\* StaticGraph is not in src/: the degree of a vertex is the size of its
\* window, the source of a position is the vertex whose window holds it, and
\* edges() visits the positions whose source is below their target (the
\* positions 0, 1, 3, 6, 7, 9 of the test for the graph of the fixture)
nodeDegree(u) == graph._nodes[u + 1] - graph._nodes[u]

source(p) == CHOOSE u \in GraphNodes : p \in NodeWindow(u)

edges == {p \in DOMAIN graph._edges : source(p) < graph._edges[p].target}

\* the input edges with the pins u and v
InputEdgesOf(u, v) ==
  {pos \in InputEdges : construct_args.edge_vector[pos] \in {<<u, v>>, <<v, u>>}}

(***************************************************************************)
(* C32: the graph that construct returns has 2m half-edges, the degree of  *)
(* every vertex is the number of input edges that contain it, the windows  *)
(* of the vertices are disjoint and cover the array, every input edge is   *)
(* once in the window of each of its two vertices (so every edge has size  *)
(* 2), and edges() visits every input edge once.                           *)
(***************************************************************************)
C32_AdjacencyArrayOfInput ==
  Constructed =>
    /\ DOMAIN graph._edges = 0..(2 * construct_args.num_edges - 1)
    /\ SumOver([u \in GraphNodes |-> nodeDegree(u)], GraphNodes)
         = 2 * construct_args.num_edges
    /\ \A u \in GraphNodes :
         nodeDegree(u) = Cardinality({pos \in InputEdges :
                           u \in Range(construct_args.edge_vector[pos])})
    /\ graph._nodes[0] = 0
    /\ graph._nodes[graph._num_nodes] = 2 * construct_args.num_edges
    /\ \A u \in GraphNodes : graph._nodes[u] <= graph._nodes[u + 1]
    /\ \A p \in DOMAIN graph._edges :
         /\ graph._edges[p] # <<>>
         /\ Cardinality({u \in GraphNodes : p \in NodeWindow(u)}) = 1
    /\ \A u, v \in GraphNodes :
         /\ Cardinality({p \in NodeWindow(u) : graph._edges[p].target = v})
              = Cardinality(InputEdgesOf(u, v))
         /\ u < v =>
              Cardinality({p \in edges : source(p) = u /\ graph._edges[p].target = v})
                = Cardinality(InputEdgesOf(u, v))

\* a graph with two parallel edges given in opposite directions and a vertex
\* of degree 3 whose window was filled out of the order of the input
C32_Witness ==
  /\ Constructed
  /\ \E pos1, pos2 \in InputEdges :
       /\ pos1 < pos2
       /\ construct_args.edge_vector[pos1] =
            <<construct_args.edge_vector[pos2][2], construct_args.edge_vector[pos2][1]>>
       /\ \E u \in GraphNodes : \E p, q \in NodeWindow(u) :
            /\ nodeDegree(u) = 3
            /\ p < q
            /\ graph._edges[p].weight = pos2 + 2
            /\ graph._edges[q].weight = pos1 + 2

(***************************************************************************)
(* C34: in the graph that construct returns, with the stable construction  *)
(* off or on, the backward edge of every position p in the window of u     *)
(* with target v is a position q in the window of v with target u, the     *)
(* weight of p and the backward edge p.                                    *)
(***************************************************************************)
BackwardsEdgeIsInvolution ==
  \A p \in DOMAIN graph._edges :
    LET q == graph._edges[p].backwardsEdge IN
      /\ q \in NodeWindow(graph._edges[p].target)
      /\ graph._edges[q].target = source(p)
      /\ graph._edges[q].weight = graph._edges[p].weight
      /\ graph._edges[q].backwardsEdge = p

C34_BackwardsEdgeIsInvolution == Constructed => BackwardsEdgeIsInvolution

\* without the sort of the stable construction
C34_UnsortedBackwardsEdgeIsInvolution ==
  (Constructed /\ ~construct_args.stable_construction_of_degree)
    => BackwardsEdgeIsInvolution

(***************************************************************************)
(* Part 4b: parallel::queue (the second file of                            *)
(* src/mt-kahypar/application/kahypar.cc, lines 139-235).                  *)
(*                                                                         *)
(* Thread 0 is the reader, the threads 1..NumWriters write; the values     *)
(* written are numbered in the order of the calls of write.  A call is     *)
(* split at its exchange on writer_lock: what follows it runs with the     *)
(* lock held, or touches reader_queue, which only the reader and clear     *)
(* touch.  The constructors do not initialise the member deactivated       *)
(* (lines 160-170): it starts with either value.  queue_log records the    *)
(* values written and, in the order of the reads, the values read.         *)
(***************************************************************************)
Writers == 1..NumWriters

\* the thread that reads
Reader == NumWriters + 1

QueueThreads == {Reader} \cup Writers

\* a value no call of write passes
Garbage == MaxWrites + 1

not_queue_vars == <<contract_vars, refinement_vars, graph_vars, nlevel_vars, ilp_vars>>

CallReturned(call, result) == [call |-> call, result |-> result]

\* queue(): writer_lock = false, the vectors are empty
QueueInit ==
  /\ writer_lock = FALSE
  /\ deactivated \in BOOLEAN
  /\ writer_queue = <<>>
  /\ reader_queue = <<>>
  /\ queue_threads = [t \in QueueThreads |-> [pc |-> "idle", returned |-> <<>>]]
  /\ queue_log = [next |-> 1, written |-> {}, before |-> <<>>, read |-> <<>>,
                  deactivate |-> FALSE]
  /\ NoContract /\ NoRefinement /\ NoGraph /\ NoNLevel /\ NoILP

\* write, line 175: the exchange; a writer that finds the lock taken returns
\* false (lines 179-181)
WriteExchange(t) ==
  /\ t \in Writers
  /\ queue_threads[t].pc = "idle"
  /\ queue_log.next <= MaxWrites
  /\ LET data == queue_log.next IN
       /\ queue_threads' = [queue_threads EXCEPT ![t] =
            IF writer_lock
              THEN [pc |-> "idle", returned |-> CallReturned("write", FALSE)]
              ELSE [pc |-> "write_locked", data |-> data, returned |-> <<>>]]
       /\ queue_log' = [queue_log EXCEPT
            !.next = @ + 1,
            !.before = (data :> queue_log.written) @@ @]
  /\ writer_lock' = TRUE
  /\ UNCHANGED <<deactivated, writer_queue, reader_queue>>
  /\ UNCHANGED not_queue_vars

\* write, lines 176 and 182-189: with the lock held
WriteStore(t) ==
  /\ t \in Writers
  /\ queue_threads[t].pc = "write_locked"
  /\ LET data == queue_threads[t].data IN
       IF deactivated
         THEN /\ queue_threads' = [queue_threads EXCEPT ![t] =
                   [pc |-> "idle", returned |-> CallReturned("write", FALSE)]]
              /\ UNCHANGED <<writer_queue, queue_log>>
         ELSE /\ writer_queue' = Append(writer_queue, data)
              /\ queue_threads' = [queue_threads EXCEPT ![t] =
                   [pc |-> "idle", returned |-> CallReturned("write", TRUE)]]
              /\ queue_log' = [queue_log EXCEPT !.written = @ \cup {data}]
  /\ writer_lock' = FALSE
  /\ UNCHANGED <<deactivated, reader_queue>>
  /\ UNCHANGED not_queue_vars

\* read, lines 196-200: the test of reader_queue and the exchange
ReadExchange ==
  /\ queue_threads[Reader].pc = "idle"
  /\ IF reader_queue # <<>>
       THEN /\ queue_threads' = [queue_threads EXCEPT ![Reader] =
                 [pc |-> "pop", returned |-> <<>>]]
            /\ UNCHANGED writer_lock
       ELSE /\ queue_threads' = [queue_threads EXCEPT ![Reader] =
                 IF writer_lock
                   THEN [pc |-> "idle", returned |-> CallReturned("read", FALSE)]
                   ELSE [pc |-> "read_locked", returned |-> <<>>]]
            /\ writer_lock' = TRUE
  /\ UNCHANGED <<deactivated, writer_queue, reader_queue, queue_log>>
  /\ UNCHANGED not_queue_vars

moved_from_kept(q) == q

\* lines 204-206: writer_queue after std::move and the assignment of an
\* empty vector
moved_from(q) == <<>>

\* read, lines 201-209: with the lock held
ReadMove ==
  /\ queue_threads[Reader].pc = "read_locked"
  /\ IF writer_queue = <<>>
       THEN /\ queue_threads' = [queue_threads EXCEPT ![Reader] =
                 [pc |-> "idle", returned |-> CallReturned("read", FALSE)]]
            /\ UNCHANGED <<writer_queue, reader_queue>>
       ELSE /\ reader_queue' = writer_queue
            /\ writer_queue' = moved_from(writer_queue)
            /\ queue_threads' = [queue_threads EXCEPT ![Reader] =
                 [pc |-> "pop", returned |-> <<>>]]
  /\ writer_lock' = FALSE
  /\ UNCHANGED <<deactivated, queue_log>>
  /\ UNCHANGED not_queue_vars

\* read, lines 212-214: back(), pop_back()
ReadPop ==
  /\ queue_threads[Reader].pc = "pop"
  /\ reader_queue # <<>>
  /\ LET data == reader_queue[Len(reader_queue)] IN
       /\ queue_threads' = [queue_threads EXCEPT ![Reader] =
            [pc |-> "idle", returned |-> CallReturned("read", TRUE)]]
       /\ queue_log' = [queue_log EXCEPT
            !.read = IF data = Garbage THEN @ ELSE Append(@, data)]
  /\ reader_queue' = SubSeq(reader_queue, 1, Len(reader_queue) - 1)
  /\ UNCHANGED <<writer_lock, deactivated, writer_queue>>
  /\ UNCHANGED not_queue_vars

QueueNext ==
  \/ \E t \in Writers : WriteExchange(t)
  \/ \E t \in Writers : WriteStore(t)
  \/ ReadExchange
  \/ ReadMove
  \/ ReadPop

\* one reader and NumWriters writers, no clear and no deactivate
SpecQueue == QueueInit /\ [][QueueNext]_vars

\* deactivate, lines 228-231: the exchange; false if the lock is taken
DeactivateExchange(t) ==
  /\ queue_threads[t].pc = "idle"
  /\ queue_threads' = [queue_threads EXCEPT ![t] =
       IF writer_lock
         THEN [pc |-> "idle", returned |-> CallReturned("deactivate", FALSE)]
         ELSE [pc |-> "deactivate_locked", returned |-> <<>>]]
  /\ writer_lock' = TRUE
  /\ UNCHANGED <<deactivated, writer_queue, reader_queue, queue_log>>
  /\ UNCHANGED not_queue_vars

\* deactivate, lines 232-234, and clear, lines 218-223
DeactivateClear(t) ==
  /\ queue_threads[t].pc = "deactivate_locked"
  /\ deactivated' = TRUE
  /\ reader_queue' = <<>>
  /\ writer_queue' = <<>>
  /\ writer_lock' = FALSE
  /\ queue_threads' = [queue_threads EXCEPT ![t] =
       [pc |-> "idle", returned |-> CallReturned("deactivate", TRUE)]]
  /\ queue_log' = [queue_log EXCEPT !.deactivate = TRUE]
  /\ UNCHANGED not_queue_vars

\* read, lines 212-214, after clear emptied reader_queue under the reader:
\* back() and pop_back() of an empty vector are undefined; the read returns
\* some value and the vector is empty or is not
ReadPopCleared ==
  /\ queue_threads[Reader].pc = "pop"
  /\ reader_queue = <<>>
  /\ queue_threads' = [queue_threads EXCEPT ![Reader] =
       [pc |-> "idle", returned |-> CallReturned("read", TRUE)]]
  /\ reader_queue' \in {<<>>, <<Garbage>>}
  /\ UNCHANGED <<writer_lock, deactivated, writer_queue, queue_log>>
  /\ UNCHANGED not_queue_vars

QueueDeactivateNext ==
  \/ \E t \in Writers : WriteExchange(t)
  \/ \E t \in Writers : WriteStore(t)
  \/ ReadExchange
  \/ ReadMove
  \/ ReadPop
  \/ \E t \in Writers : DeactivateExchange(t)
  \/ \E t \in Writers : DeactivateClear(t)
  \/ ReadPopCleared

\* the same threads; the writers may also call deactivate
SpecQueueDeactivate == QueueInit /\ [][QueueDeactivateNext]_vars

\* the threads between acquiring and releasing writer_lock
InWriterLock ==
  {t \in QueueThreads :
     queue_threads[t].pc \in {"write_locked", "read_locked", "deactivate_locked"}}

\* the thread t takes a step of its call
CallStep(t) ==
  \/ WriteExchange(t) \/ WriteStore(t)
  \/ DeactivateExchange(t) \/ DeactivateClear(t)
  \/ t = Reader /\ (ReadExchange \/ ReadMove \/ ReadPop \/ ReadPopCleared)

\* the call of the thread t returns the result in this step
Returns(t, call, result) ==
  /\ CallStep(t)
  /\ queue_threads'[t].pc = "idle"
  /\ queue_threads'[t].returned = CallReturned(call, result)

(***************************************************************************)
(* C37: with one reader and any number of writers and no clear or          *)
(* deactivate, the values read and the values in the two buffers are       *)
(* exactly the values whose write returned true, each once; a write that   *)
(* returns false adds nothing; at most one thread is between acquiring and *)
(* releasing writer_lock.                                                  *)
(***************************************************************************)
C37_NothingLostOrDuplicated ==
  /\ [](/\ NoDuplicates(queue_log.read \o reader_queue \o writer_queue)
        /\ Range(queue_log.read \o reader_queue \o writer_queue) = queue_log.written
        /\ Cardinality(InWriterLock) <= 1
        /\ InWriterLock # {} => writer_lock)
  /\ [][\A t \in Writers :
          Returns(t, "write", FALSE) =>
            (writer_queue' = writer_queue /\ reader_queue' = reader_queue)]_vars

\* a write found the lock taken, and the reader has read two values
C37_Witness ==
  /\ ~deactivated
  /\ \E t \in Writers : queue_threads[t].returned = CallReturned("write", FALSE)
  /\ Len(queue_log.read) = 2

(***************************************************************************)
(* C38: values are read in the order they were written: when a value is    *)
(* read, every value whose write had returned true before its write was    *)
(* called has been read before it.                                         *)
(***************************************************************************)
C38_FirstInFirstOut ==
  \A j \in DOMAIN queue_log.read :
    \A x \in queue_log.before[queue_log.read[j]] :
      \E i \in 1..(j - 1) : queue_log.read[i] = x

\* what holds of the order: the values the reader took over together are
\* read last written first, and all of them before any value written later
C38_BatchesLastInFirstOut ==
  /\ \A i, j \in DOMAIN reader_queue : i < j => reader_queue[i] < reader_queue[j]
  /\ \A i, j \in DOMAIN writer_queue : i < j => writer_queue[i] < writer_queue[j]
  /\ \A i \in DOMAIN reader_queue, j \in DOMAIN writer_queue :
       reader_queue[i] < writer_queue[j]

(***************************************************************************)
(* C39: a new queue accepts writes; once deactivate has returned true,     *)
(* every write returns false and stores nothing, both buffers are empty,   *)
(* every read called later returns false, and the writer lock is free when *)
(* deactivate returns; a deactivate that returns false changes nothing.    *)
(***************************************************************************)
RejectsWritesOnceDeactivated ==
  /\ [][\A t \in Writers :
          /\ (queue_log.deactivate /\ (WriteExchange(t) \/ WriteStore(t))) =>
               (~Returns(t, "write", TRUE) /\ writer_queue' = writer_queue)
          /\ Returns(t, "deactivate", TRUE) =>
               (~writer_lock' /\ writer_queue' = <<>> /\ reader_queue' = <<>>)
          /\ Returns(t, "deactivate", FALSE) =>
               UNCHANGED <<writer_lock, deactivated, writer_queue, reader_queue>>]_vars
  /\ [](queue_log.deactivate => (deactivated /\ writer_queue = <<>>))

C39_DeactivationIsFinal ==
  /\ RejectsWritesOnceDeactivated
  /\ [][\A t \in Writers :
          (~queue_log.deactivate /\ WriteStore(t)) => Returns(t, "write", TRUE)]_vars
  /\ [](queue_log.deactivate => reader_queue = <<>>)
  /\ [][(queue_log.deactivate /\ queue_threads[Reader].pc \in {"idle", "read_locked"})
          => ~Returns(Reader, "read", TRUE)]_vars

\* the part of it about the writes and the writer lock
C39_WritesRejectedOnceDeactivated == RejectsWritesOnceDeactivated

\* the new queue rejects a write although deactivate was never called
C39_NewQueueRejectsWrite ==
  [][\A t \in Writers :
       (~queue_log.deactivate /\ WriteStore(t)) => Returns(t, "write", TRUE)]_vars

(***************************************************************************)
(* Part 4c.  The n-level round trip of simulateAsyncNLevel                 *)
(* (fm_core_test.cc): batches of contractions, each followed by the        *)
(* removal of single-pin and parallel hyperedges, then per version, last   *)
(* version first, the uncontraction of the groups of its pool and the      *)
(* restoring of the removed hyperedges.  The driver is the test; the       *)
(* DynamicHypergraph, the pool and the lock manager are behind it.         *)
(***************************************************************************)
NlNodes == 0..(NumNlNodes - 1)
NlEdges == 0..(NumNlEdges - 1)
NlBlocks == 0..(NumNlBlocks - 1)
NlThreads == 1..NumNlThreads

\* the hypergraphs the test is run on: hyperedges of two or more pins, unit
\* weights
NlInputs ==
  [pins : [NlEdges -> {s \in SUBSET NlNodes : Cardinality(s) >= 2}],
   edges : {NlEdges},
   nodes : {NlNodes},
   node_weight : {[hn \in NlNodes |-> 1]},
   edge_weight : {[he \in NlEdges |-> 1]}]

\* the part of the hypergraph that verifyEqualityOfHypergraphs compares
HypergraphOf(h) ==
  [pins |-> h.pins, edges |-> h.edges, nodes |-> h.nodes,
   node_weight |-> h.node_weight, edge_weight |-> h.edge_weight]

not_nlevel_vars == <<contract_vars, refinement_vars, graph_vars, queue_vars, ilp_vars>>

\* the call of simulateAsyncNLevel
NlInit ==
  /\ \E h \in NlInputs :
       /\ nl_hypergraph =
            [pins |-> h.pins, edges |-> h.edges, nodes |-> h.nodes,
             node_weight |-> h.node_weight, edge_weight |-> h.edge_weight,
             part |-> [hn \in NlNodes |-> kInvalidPartition]]
       /\ nl_contractions =
            [pc |-> "contract", original |-> h, mementos |-> <<>>,
             removed_hyperedges |-> <<>>, version |-> 0]
  /\ nl_pool = [versionedPools |-> <<>>, active |-> {}, finished |-> {}]
  /\ nl_lock_manager = [hn \in NlNodes |-> invalidGroupID]
  /\ nl_threads = [t \in NlThreads |-> [pc |-> "idle"]]
  /\ NoContract /\ NoRefinement /\ NoGraph /\ NoQueue /\ NoILP

\* the hyperedges that are enabled and have the pin
incident_nets(h, hn) == {he \in h.edges : hn \in h.pins[he]}

\* hypergraph.contract(v) after registerContraction(u, v): v leaves its
\* hyperedges, u enters those it is not a pin of
contract(h, u, v) ==
  [h EXCEPT
     !.pins = [he \in NlEdges |->
                 IF he \in incident_nets(h, v)
                   THEN (h.pins[he] \ {v}) \cup {u}
                   ELSE h.pins[he]],
     !.nodes = h.nodes \ {v},
     !.node_weight = [h.node_weight EXCEPT ![u] = @ + h.node_weight[v]]]

\* the memento of the contraction with what the uncontraction needs: the
\* hyperedges of v, and those among them that had u as a pin already
Memento(h, u, v, version) ==
  [u |-> u, v |-> v, version |-> version,
   incident |-> incident_nets(h, v),
   shared |-> incident_nets(h, v) \cap incident_nets(h, u)]

\* one contraction of a batch: registerContraction(u, v), contract(v)
NlContract(u, v) ==
  /\ nl_contractions # <<>>
  /\ nl_contractions.pc = "contract"
  /\ Len(nl_contractions.mementos) < MaxContractions
  /\ u \in nl_hypergraph.nodes /\ v \in nl_hypergraph.nodes /\ u # v
  /\ nl_hypergraph' = contract(nl_hypergraph, u, v)
  /\ nl_contractions' =
       [nl_contractions EXCEPT
          !.mementos = Append(@, Memento(nl_hypergraph, u, v, nl_contractions.version))]
  /\ UNCHANGED <<nl_pool, nl_lock_manager, nl_threads, not_nlevel_vars>>

\* the single-pin hyperedges, and the hyperedges parallel to one of lower id
SinglePinNets(h) == {he \in h.edges : Cardinality(h.pins[he]) = 1}
ParallelNets(h) ==
  {he \in h.edges \ SinglePinNets(h) :
     \E rep \in h.edges : rep < he /\ h.pins[rep] = h.pins[he]}
RepresentativeOf(h, he) ==
  CHOOSE rep \in h.edges :
    /\ h.pins[rep] = h.pins[he]
    /\ \A other \in h.edges : h.pins[other] = h.pins[he] => rep <= other

\* removeSinglePinAndParallelHyperedges: the removed hyperedges with their
\* representatives; a representative takes over the weight
RemovedHyperedges(h) ==
  {[removed_hyperedge |-> he, representative |-> kInvalidHyperedge] :
     he \in SinglePinNets(h)}
  \cup
  {[removed_hyperedge |-> he, representative |-> RepresentativeOf(h, he)] :
     he \in ParallelNets(h)}

removeSinglePinAndParallelHyperedges(h) ==
  [h EXCEPT
     !.edges = h.edges \ (SinglePinNets(h) \cup ParallelNets(h)),
     !.edge_weight =
        [he \in NlEdges |->
           h.edge_weight[he] +
             SumOver(h.edge_weight,
                     {p \in ParallelNets(h) : RepresentativeOf(h, p) = he /\ p # he})]]

\* restoreSinglePinAndParallelNets
restoreSinglePinAndParallelNets(h, removed) ==
  [h EXCEPT
     !.edges = h.edges \cup {r.removed_hyperedge : r \in removed},
     !.edge_weight =
        [he \in NlEdges |->
           h.edge_weight[he] -
             SumOver(h.edge_weight,
                     {r.removed_hyperedge : r \in {x \in removed : x.representative = he}})]]

\* the end of a batch: the removal of single-pin and parallel hyperedges
NlRemove ==
  /\ nl_contractions # <<>>
  /\ nl_contractions.pc = "contract"
  /\ nl_contractions.version < MaxBatches
  /\ nl_hypergraph' = removeSinglePinAndParallelHyperedges(nl_hypergraph)
  /\ nl_contractions' =
       [nl_contractions EXCEPT
          !.removed_hyperedges = Append(@, RemovedHyperedges(nl_hypergraph)),
          !.version = @ + 1]
  /\ UNCHANGED <<nl_pool, nl_lock_manager, nl_threads, not_nlevel_vars>>

\* the groups: one for each memento, named by its position
Groups == DOMAIN nl_contractions.mementos
group(g) == nl_contractions.mementos[g]
GroupNodes(g) == {group(g).u, group(g).v}
GroupsOfVersion(version) == {g \in Groups : group(g).version = version}

\* the groups to uncontract after g: those of its version whose
\* representative g brings back
Successors(g) ==
  {s \in GroupsOfVersion(group(g).version) : group(s).u = group(g).v}

\* the groups of a pool that are active at first: those whose representative
\* is not contracted in the version
Roots(pool) ==
  {g \in pool : \A p \in pool : group(p).v # group(g).u}

\* the batches are done: the initial partition of the coarsest hypergraph,
\* createUncontractionGroupPoolsForVersions, the lock manager
NlCreatePools(part) ==
  /\ nl_contractions # <<>>
  /\ nl_contractions.pc = "contract"
  /\ GroupsOfVersion(nl_contractions.version) = {}
  /\ nl_hypergraph' =
       [nl_hypergraph EXCEPT
          !.part = [hn \in NlNodes |->
                      IF hn \in nl_hypergraph.nodes THEN part[hn]
                      ELSE kInvalidPartition]]
  /\ nl_contractions' = [nl_contractions EXCEPT !.pc = "uncontract"]
  /\ nl_pool' =
       [versionedPools |->
          [i \in 1..(nl_contractions.version + 1) |-> GroupsOfVersion(i - 1)],
        active |-> Roots(GroupsOfVersion(nl_contractions.version)),
        finished |-> {}]
  /\ UNCHANGED <<nl_lock_manager, nl_threads, not_nlevel_vars>>

\* while (pool->hasActive()): pickAnyActiveID
NlPick(t) ==
  /\ nl_contractions # <<>>
  /\ nl_contractions.pc = "uncontract"
  /\ nl_threads[t].pc = "idle"
  /\ \E groupID \in nl_pool.active :
       /\ nl_pool' = [nl_pool EXCEPT !.active = @ \ {groupID}]
       /\ nl_threads' = [nl_threads EXCEPT ![t] = [pc |-> "acquire", groupID |-> groupID]]
  /\ UNCHANGED <<nl_hypergraph, nl_contractions, nl_lock_manager, not_nlevel_vars>>

\* tryToAcquireMultipleLocks: all locks of the range or none
tryToAcquireMultipleLocks(locks, range, groupID) ==
  IF \A hn \in range : locks[hn] = invalidGroupID
    THEN [hn \in NlNodes |-> IF hn \in range THEN groupID ELSE locks[hn]]
    ELSE locks

\* the locks of the group, or pool->reactivate(groupID) and continue
NlTryAcquire(t) ==
  /\ nl_threads # <<>>
  /\ nl_threads[t].pc = "acquire"
  /\ LET groupID == nl_threads[t].groupID
         acquired == \A hn \in GroupNodes(groupID) : nl_lock_manager[hn] = invalidGroupID
     IN /\ nl_lock_manager' =
             tryToAcquireMultipleLocks(nl_lock_manager, GroupNodes(groupID), groupID)
        /\ IF ~acquired
             THEN /\ nl_pool' = [nl_pool EXCEPT !.active = @ \cup {groupID}]
                  /\ nl_threads' = [nl_threads EXCEPT ![t] = [pc |-> "idle"]]
             ELSE /\ nl_threads' = [nl_threads EXCEPT ![t].pc = "uncontract"]
                  /\ UNCHANGED nl_pool
  /\ UNCHANGED <<nl_hypergraph, nl_contractions, not_nlevel_vars>>

\* partitioned_hypergraph.uncontract(group): v is a pin again of the
\* hyperedges it was a pin of, u only of those it shared with v; v is put
\* into the block of u
uncontract(h, m) ==
  [h EXCEPT
     !.pins = [he \in NlEdges |->
                 IF he \in m.shared THEN h.pins[he] \cup {m.v}
                 ELSE IF he \in m.incident THEN (h.pins[he] \ {m.u}) \cup {m.v}
                 ELSE h.pins[he]],
     !.nodes = h.nodes \cup {m.v},
     !.node_weight = [h.node_weight EXCEPT ![m.u] = @ - h.node_weight[m.v]],
     !.part = [h.part EXCEPT ![m.v] = h.part[m.u]]]

NlUncontract(t) ==
  /\ nl_threads # <<>>
  /\ nl_threads[t].pc = "uncontract"
  /\ nl_hypergraph' = uncontract(nl_hypergraph, group(nl_threads[t].groupID))
  /\ nl_pool' = [nl_pool EXCEPT !.finished = @ \cup {nl_threads[t].groupID}]
  /\ nl_threads' = [nl_threads EXCEPT ![t].pc = "extract"]
  /\ UNCHANGED <<nl_contractions, nl_lock_manager, not_nlevel_vars>>

\* a vertex with an enabled hyperedge that has pins in two blocks
isBorderNode(h, hn) ==
  \E he \in incident_nets(h, hn) :
    \E p, q \in h.pins[he] : h.part[p] # h.part[q]

\* extractBorderNodesAndReleaseOthers; with no refinement node the loop
\* continues, else the locks of the seeds are released and the successors
\* of the group activated
NlExtractAndRelease(t) ==
  /\ nl_threads # <<>>
  /\ nl_threads[t].pc = "extract"
  /\ LET groupID == nl_threads[t].groupID
         refinement_nodes ==
           {hn \in GroupNodes(groupID) : isBorderNode(nl_hypergraph, hn)}
     IN /\ nl_lock_manager' =
             [hn \in NlNodes |->
                IF hn \in GroupNodes(groupID) /\ nl_lock_manager[hn] = groupID
                  THEN invalidGroupID
                  ELSE nl_lock_manager[hn]]
        /\ IF refinement_nodes = {}
             THEN UNCHANGED nl_pool
             ELSE nl_pool' = [nl_pool EXCEPT !.active = @ \cup Successors(groupID)]
  /\ nl_threads' = [nl_threads EXCEPT ![t] = [pc |-> "idle"]]
  /\ UNCHANGED <<nl_hypergraph, nl_contractions, not_nlevel_vars>>

\* no group of the pool is active: versionedPools.pop_back(), and the
\* hyperedges removed last are restored
NlPopPool ==
  /\ nl_contractions # <<>>
  /\ nl_contractions.pc = "uncontract"
  /\ nl_pool.versionedPools # <<>>
  /\ nl_pool.active = {}
  /\ \A t \in NlThreads : nl_threads[t].pc = "idle"
  /\ LET removed_hyperedges == nl_contractions.removed_hyperedges
         rest == SubSeq(nl_pool.versionedPools, 1, Len(nl_pool.versionedPools) - 1)
     IN /\ nl_pool' =
             [nl_pool EXCEPT
                !.versionedPools = rest,
                !.active = IF rest = <<>> THEN {} ELSE Roots(rest[Len(rest)])]
        /\ IF removed_hyperedges # <<>>
             THEN /\ nl_hypergraph' =
                       restoreSinglePinAndParallelNets(
                         nl_hypergraph, removed_hyperedges[Len(removed_hyperedges)])
                  /\ nl_contractions' =
                       [nl_contractions EXCEPT
                          !.removed_hyperedges = SubSeq(@, 1, Len(@) - 1),
                          !.pc = IF Len(nl_pool.versionedPools) = 1
                                   THEN "done" ELSE @]
             ELSE /\ nl_contractions' =
                       [nl_contractions EXCEPT
                          !.pc = IF Len(nl_pool.versionedPools) = 1
                                   THEN "done" ELSE @]
                  /\ UNCHANGED nl_hypergraph
  /\ UNCHANGED <<nl_lock_manager, nl_threads, not_nlevel_vars>>

NLevelNext ==
  \/ \E u, v \in NlNodes : NlContract(u, v)
  \/ NlRemove
  \/ \E part \in [NlNodes -> NlBlocks] : NlCreatePools(part)
  \/ \E t \in NlThreads : NlPick(t)
  \/ \E t \in NlThreads : NlTryAcquire(t)
  \/ \E t \in NlThreads : NlUncontract(t)
  \/ \E t \in NlThreads : NlExtractAndRelease(t)
  \/ NlPopPool

SpecNLevel == NlInit /\ [][NLevelNext]_vars

\* the groups the threads are uncontracting, and the locks a group holds
GroupOf(t) == nl_threads[t].groupID
LocksHeldBy(groupID) == {hn \in NlNodes : nl_lock_manager[hn] = groupID}

\* the hypergraph is the one the test started with
EqualsOriginal == HypergraphOf(nl_hypergraph) = nl_contractions.original

\* a group is uncontracted only under the locks of its representative and
\* of its contracted nodes; a group that waits in the pool holds no lock
LockDiscipline ==
  /\ \A t \in NlThreads :
       nl_threads[t].pc \in {"uncontract", "extract"} =>
         GroupNodes(GroupOf(t)) \subseteq LocksHeldBy(GroupOf(t))
  /\ \A groupID \in nl_pool.active : LocksHeldBy(groupID) = {}
  /\ \A t \in NlThreads : nl_threads[t].pc = "acquire" => LocksHeldBy(GroupOf(t)) = {}

(***************************************************************************)
(* C33: after any batches of contractions, each followed by the removal of *)
(* single-pin and parallel hyperedges, the uncontraction of the pools,     *)
(* last version first, with the restoring of the removed hyperedges gives  *)
(* back the original hypergraph; a group is uncontracted only while it     *)
(* holds the locks of its representative and its contracted nodes, and a   *)
(* group that does not get all its locks is active again and holds none.   *)
(***************************************************************************)
C33_NLevelRoundTrip ==
  /\ nl_contractions.pc = "done" => EqualsOriginal
  /\ LockDiscipline

\* the locks are used as claimed
C33_UncontractsUnderLocks == LockDiscipline

\* the round trip holds when no group was left out
C33_RoundTripOfAllGroups ==
  (nl_contractions.pc = "done" /\ nl_pool.finished = Groups) => EqualsOriginal

\* only groups behind a group without border node are left out
C33_LeftOutBehindInnerGroup ==
  nl_contractions.pc = "done" =>
    \A g \in Groups \ nl_pool.finished :
      \E p \in Groups : g \in Successors(p)

\* two contractions, one of them of the second batch, were undone
C33_AllGroupsWitness ==
  /\ nl_contractions.pc = "done"
  /\ nl_pool.finished = Groups
  /\ Cardinality(Groups) = 2
  /\ \E g \in Groups : group(g).version = 1

(***************************************************************************)
(* Part 4d.  ILPHypergraph (i_advanced_refiner.h): the view of a           *)
(* partitioned hypergraph that the ILP refiner solves.  The vertices       *)
(* handed over keep their identity, every other vertex is represented by   *)
(* the supervertex of its block.                                           *)
(***************************************************************************)
IlpNodes == 0..(NumIlpNodes - 1)
IlpEdges == 0..(NumIlpEdges - 1)
IlpBlocks == 0..(NumIlpBlocks - 1)

\* the vectors of vertices without repetition
NodeVectors ==
  {s \in UNION {[1..n -> IlpNodes] : n \in 0..NumIlpNodes} : NoDuplicates(s)}

\* the partitioned hypergraphs and vertex vectors the constructor is called
\* with: every vertex has a block, every hyperedge has a pin
IlpInputs ==
  [k : {NumIlpBlocks},
   pins : [IlpEdges -> SUBSET IlpNodes \ {{}}],
   part : [IlpNodes -> IlpBlocks],
   weight : [IlpNodes -> 1..MaxIlpWeight],
   nodes : NodeVectors]

\* _phg.partWeight(block)
phg_partWeight(block) ==
  SumOver(ilp_phg.weight, {hn \in IlpNodes : ilp_phg.part[hn] = block})

\* _phg.incidentEdges(hn)
phg_incidentEdges(hn) == {he \in IlpEdges : hn \in ilp_phg.pins[he]}

\* the weight of the vertices of the vector that are in the block
SelectedWeight(block) ==
  SumOver(ilp_phg.weight, {hn \in Range(ilp_phg.nodes) : ilp_phg.part[hn] = block})

not_ilp_vars == <<contract_vars, refinement_vars, graph_vars, queue_vars, nlevel_vars>>

\* the constructor up to the call of initialize()
IlpInit ==
  /\ ilp_phg \in IlpInputs
  /\ ilp_hg = [pc |-> "initialize",
               _num_nodes |-> Len(ilp_phg.nodes) + ilp_phg.k,
               _num_hg_nodes |-> Len(ilp_phg.nodes),
               _num_edges |-> 0,
               _k |-> kInvalidPartition,
               _contained_blocks |-> <<>>,
               _to_ilp_block |-> [b \in IlpBlocks |-> kInvalidPartition],
               _ilp_hns_to_hg |-> ilp_phg.nodes,
               _hns_to_ilp_hg |-> <<>>,
               _ilp_hes_to_hg |-> <<>>,
               _super_vertex_weights |-> [b \in IlpBlocks |-> 0]]
  /\ ilp_pins = <<>>
  /\ NoContract /\ NoRefinement /\ NoGraph /\ NoQueue /\ NoNLevel

\* _to_ilp_block after the last loop of initialize: the position that the
\* block has in the sorted _contained_blocks
to_ilp_block(contained, block) ==
  IF block \in contained
    THEN Cardinality({b \in contained : b < block})
    ELSE kInvalidPartition

\* initialize()
Initialize ==
  /\ ilp_hg # <<>>
  /\ ilp_hg.pc = "initialize"
  /\ LET selected == Range(ilp_phg.nodes)
         hes == UNION {phg_incidentEdges(hn) : hn \in selected}
         contained == {ilp_phg.part[pin] : pin \in UNION {ilp_phg.pins[he] : he \in hes}}
     IN ilp_hg' =
          [ilp_hg EXCEPT
             !.pc = "initialized",
             !._super_vertex_weights =
               [b \in IlpBlocks |-> phg_partWeight(b) - SelectedWeight(b)],
             !._hns_to_ilp_hg =
               [original_hn \in selected |->
                  (CHOOSE hn \in DOMAIN ilp_phg.nodes :
                     ilp_phg.nodes[hn] = original_hn) - 1],
             !._ilp_hes_to_hg = SetToSortedSeq(hes),
             !._num_edges = Cardinality(hes),
             !._contained_blocks = SetToSortedSeq(contained),
             !._k = Cardinality(contained),
             !._num_nodes = ilp_hg._num_hg_nodes + Cardinality(contained),
             !._to_ilp_block = [b \in IlpBlocks |-> to_ilp_block(contained, b)]]
  /\ UNCHANGED <<ilp_phg, ilp_pins, not_ilp_vars>>

RECURSIVE next_pins(_, _, _)
\* the ids that PinIterator yields from position it of the pin list on, with
\* the blocks marked so far
next_pins(pin_list, it, marked_blocks) ==
  IF it > Len(pin_list) THEN <<>>
  ELSE IF pin_list[it] \in DOMAIN ilp_hg._hns_to_ilp_hg
    THEN <<ilp_hg._hns_to_ilp_hg[pin_list[it]]>>
           \o next_pins(pin_list, it + 1, marked_blocks)
  ELSE LET block == ilp_phg.part[pin_list[it]]
       IN IF block \notin marked_blocks
            THEN <<ilp_hg._num_hg_nodes + block>>
                   \o next_pins(pin_list, it + 1, marked_blocks \cup {block})
            ELSE next_pins(pin_list, it + 1, marked_blocks)

\* a loop over pins(e)
Pins(e) ==
  /\ ilp_hg # <<>>
  /\ ilp_hg.pc = "initialized"
  /\ e \in 0..(ilp_hg._num_edges - 1)
  /\ e \notin DOMAIN ilp_pins
  /\ LET original_he == ilp_hg._ilp_hes_to_hg[e + 1]
     IN ilp_pins' =
          [x \in DOMAIN ilp_pins \cup {e} |->
             IF x = e
               THEN next_pins(SetToSortedSeq(ilp_phg.pins[original_he]), 1, {})
               ELSE ilp_pins[x]]
  /\ UNCHANGED <<ilp_phg, ilp_hg, not_ilp_vars>>

IlpNext ==
  \/ Initialize
  \/ \E e \in IlpEdges : Pins(e)

SpecILP == IlpInit /\ [][IlpNext]_vars

\* ILPHypergraph::nodeWeight(u)
ilp_nodeWeight(u) ==
  IF u < ilp_hg._num_hg_nodes
    THEN ilp_phg.weight[ilp_hg._ilp_hns_to_hg[u + 1]]
    ELSE ilp_hg._super_vertex_weights[u - ilp_hg._num_hg_nodes]

\* ILPHypergraph::partID(u)
ilp_partID(u) ==
  IF u < ilp_hg._num_hg_nodes
    THEN ilp_hg._to_ilp_block[ilp_phg.part[ilp_hg._ilp_hns_to_hg[u + 1]]]
    ELSE u - ilp_hg._num_hg_nodes

\* numNodes()
numNodes == ilp_hg._num_nodes

\* how often the id is yielded by pins(e)
TimesYielded(e, u) == Cardinality({i \in DOMAIN ilp_pins[e] : ilp_pins[e][i] = u})

\* the pins of the original hyperedge of e that are in the vector, and the
\* blocks of its other pins
SelectedPins(e) ==
  ilp_phg.pins[ilp_hg._ilp_hes_to_hg[e + 1]] \cap Range(ilp_phg.nodes)
OtherBlocks(e) ==
  {ilp_phg.part[pin] :
     pin \in ilp_phg.pins[ilp_hg._ilp_hes_to_hg[e + 1]] \ Range(ilp_phg.nodes)}

\* the id under which pins(e) yields the supervertex of the block
SuperVertex(block) == ilp_hg._num_hg_nodes + block

\* pins(e) yields each pin of the vector once and one supervertex for each
\* block of the other pins, and nothing else
YieldsEachPinOnce(e) ==
  /\ \A hn \in SelectedPins(e) : TimesYielded(e, ilp_hg._hns_to_ilp_hg[hn]) = 1
  /\ \A block \in OtherBlocks(e) : TimesYielded(e, SuperVertex(block)) = 1
  /\ Len(ilp_pins[e]) = Cardinality(SelectedPins(e)) + Cardinality(OtherBlocks(e))

\* the supervertex weighs what the block weighs without the vertices of the
\* vector
SuperVertexWeight(e) ==
  \A block \in OtherBlocks(e) :
    ilp_nodeWeight(SuperVertex(block)) = phg_partWeight(block) - SelectedWeight(block)

(***************************************************************************)
(* C40: for every partition and vertex vector, every id that pins(e)       *)
(* yields is below numNodes(), each pin of the vector is yielded once and  *)
(* each block of the other pins as one supervertex u, ilp_partID(u) is the ILP *)
(* block that partID gives the vertices of the vector in that block, and   *)
(* ilp_nodeWeight(u) is the block weight without the vertices of the vector.   *)
(***************************************************************************)
C40_ConsistentSupervertices ==
  \A e \in DOMAIN ilp_pins :
    /\ \A i \in DOMAIN ilp_pins[e] : ilp_pins[e][i] < numNodes
    /\ YieldsEachPinOnce(e)
    /\ \A block \in OtherBlocks(e) :
         ilp_partID(SuperVertex(block)) = ilp_hg._to_ilp_block[block]
    /\ SuperVertexWeight(e)

\* the pins and the weights taken alone are as claimed
C40_PinsOnceAndWeights ==
  \A e \in DOMAIN ilp_pins : YieldsEachPinOnce(e) /\ SuperVertexWeight(e)

\* the blocks of the hyperedges of the ILP are the first blocks
ContainedBlocksAreFirst ==
  Range(ilp_hg._contained_blocks) = 0..(ilp_hg._k - 1)

\* the ids and the blocks agree when the blocks that occur are the blocks
\* 0..k'-1
C40_ConsistentWhenBlocksAreFirst ==
  \A e \in DOMAIN ilp_pins :
    ContainedBlocksAreFirst =>
      /\ \A i \in DOMAIN ilp_pins[e] : ilp_pins[e][i] < numNodes
      /\ \A block \in OtherBlocks(e) :
           ilp_partID(SuperVertex(block)) = ilp_hg._to_ilp_block[block]

\* a hyperedge whose pins outside the vector are in two blocks, block 0
\* among the blocks that occur
C40_FirstBlocksWitness ==
  \E e \in DOMAIN ilp_pins :
    /\ ContainedBlocksAreFirst
    /\ Cardinality(OtherBlocks(e)) = 2
    /\ SelectedPins(e) # {}

(***************************************************************************)
(* The whole model.                                                        *)
(***************************************************************************)
Init ==
  \/ ContractInit
  \/ MatchingInit
  \/ OptInit
  \/ NodeLockInit
  \/ BlockWeightInit
  \/ QuotientInit
  \/ CutInit
  \/ RoundsInit
  \/ LocalSearchInit
  \/ FmInit
  \/ RollbackInit
  \/ PartDataInit
  \/ FlowInit
  \/ FlowBalanceInit
  \/ ConstructInit
  \/ QueueInit
  \/ NlInit
  \/ IlpInit

\* the part that was started takes its steps; the others stay idle
Next ==
  \/ (~NoContract /\ ContractNext)
  \/ (Derived = "MatchingScheduler" /\ MatchingNext)
  \/ (Derived = "OptScheduler" /\ NoNodeLocks /\ NoBlockWeights /\ OptNext)
  \/ (~NoNodeLocks /\ NodeLockNext)
  \/ (~NoBlockWeights /\ NoFlow /\ BlockWeightNext)
  \/ (~NoQuotientBuild /\ QuotientNext)
  \/ (~NoCutEdges /\ CutNext)
  \/ ("first" \in DOMAIN history /\ RoundsNext)
  \/ (~NoLocalSearches /\ LocalSearchNext)
  \/ (fm.pc \in {"findMoves", "rollback"} /\ FmNext)
  \/ (~NoPartData /\ NoFlow /\ PartDataNext)
  \/ (~NoFlow /\ NoBlockWeights /\ FlowNext)
  \/ (~NoFlow /\ ~NoBlockWeights /\ FlowBalanceNext)
  \/ (~NoGraph /\ ConstructNext)
  \/ (~NoQueue /\ QueueDeactivateNext)
  \/ (~NoNLevel /\ NLevelNext)
  \/ (~NoILP /\ IlpNext)

Spec == Init /\ [][Next]_vars

====
